---- MODULE Spec2Model ----
(***************************************************************************)
(* A model of the hybrid query-resolution engine of lawyer-search-engine:  *)
(* the result cache (main.py, QueryCache), the query classifier            *)
(* (query_classifier.py) and the predicate compiler (search.py).           *)
(*                                                                         *)
(* Strings are modelled as sequences of one-character strings, so that     *)
(* lower(), strip() and concatenation are computed, not assumed.           *)
(***************************************************************************)
EXTENDS Integers, Sequences, FiniteSets, TLC

VARIABLES
    cache,       \* QueryCache.cache: OrderedDict, a sequence of [key, value], oldest first
    timestamps,  \* QueryCache.timestamps: dict key -> time of the last set
    now,         \* the clock time.time() reads
    op,          \* the call that has just completed: name, arguments, returned value,
                 \* and whether its key was in the cache when it began
    lastUse,     \* history: per key, the rank of its last set or live get hit (0 = never)
    lastSet,     \* history: per key, the clock value at its last set (-1 = never)
    run,         \* history: the keys set so far while only sets of distinct new keys happened
    thr,         \* the concurrent callers of the shared cache: position and locals of each
    query,       \* classify_query: the query, as its sequence of words
    fast,        \* classify_query: what classify_query_fast returned
    said,        \* classify_query: the raw text the judge (llm) answered
    label,       \* classify_query: the returned label
    judgeCalls,  \* classify_query: the number of calls of the judge
    ast,         \* compile_ast_to_sql: the node sequence passed in
    out,         \* compile_ast_to_sql: the returned (sql, params)
    entity,      \* execute_query: the stored lawyer, with its sub-table rows, it runs on
    selected,    \* execute_query: whether the lawyer is in the result ("error": it raised)
    stage,       \* how far the compilation and the execution have got
    store,       \* the rows of table experience_embeddings, in rowid order
    request,     \* the call of the retrieval pipeline under way: function and arguments
    reply        \* what that call gave: a returned value or a raised exception

cacheSide == <<cache, timestamps, now, op, lastUse, lastSet, run, thr>>
clsSide == <<query, fast, said, label, judgeCalls>>
cmpSide == <<ast, out, entity, selected, stage>>

pipeSide == <<store, request, reply>>
vars == <<cacheSide, clsSide, cmpSide, pipeSide>>

\* the classifier is not in use
ClsIdle ==
    /\ query = <<>>
    /\ fast = "idle"
    /\ said = <<>>
    /\ label = "idle"
    /\ judgeCalls = 0

\* the compiler is not in use
NoCall == [fn |-> "none"]

PipeIdle ==
    /\ store = <<>>
    /\ request = NoCall
    /\ reply = NoCall

CmpIdle ==
    /\ ast = <<>>
    /\ out = <<>>
    /\ entity = <<>>
    /\ selected = "idle"
    /\ stage = "idle"

----------------------------------------------------------------------------
(* Bounds of the model *)

\* QueryCache.max_size of the modelled instance (the global instance uses 100)
MaxSize == 2
\* QueryCache.ttl_seconds of the modelled instance, in clock ticks (the global instance uses 3600)
Ttl == 1
\* the clock stops advancing here
MaxTime == 3

----------------------------------------------------------------------------
(* Strings *)

\* str.lower() on one character
LowerChar(c) ==
    CASE c = "A" -> "a"
      [] c = "B" -> "b"
      [] c = "C" -> "c"
      [] c = "E" -> "e"
      [] c = "I" -> "i"
      [] c = "L" -> "l"
      [] c = "M" -> "m"
      [] c = "O" -> "o"
      [] c = "P" -> "p"
      [] c = "S" -> "s"
      [] c = "X" -> "x"
      [] c = "H" -> "h"
      [] c = "N" -> "n"
      [] c = "T" -> "t"
      [] c = "U" -> "u"
      [] c = "Y" -> "y"
      [] c = "W" -> "w"
      [] OTHER -> c

\* str.lower()
Lower(s) == [i \in 1..Len(s) |-> LowerChar(s[i])]

\* the characters str.strip() removes
IsSpace(c) == c \in {" ", "\n", "\t"}

RECURSIVE LStrip(_)
LStrip(s) == IF s # <<>> /\ IsSpace(Head(s)) THEN LStrip(Tail(s)) ELSE s

RECURSIVE RStrip(_)
RStrip(s) == IF s # <<>> /\ IsSpace(s[Len(s)]) THEN RStrip(SubSeq(s, 1, Len(s) - 1)) ELSE s

\* str.strip()
Strip(s) == RStrip(LStrip(s))

----------------------------------------------------------------------------
(* QueryCache: key derivation *)

\* hashlib.md5(...).hexdigest(), taken as an injective function of its input
Md5(s) == <<"md5", s>>

\* f"{query.lower().strip()}:{db_path}"
Combined(q, db_path) == Strip(Lower(q)) \o <<":">> \o db_path

\* QueryCache._get_key
GetKey(q, db_path) == Md5(Combined(q, db_path))

\* the queries and corpus identities the callers pass
Queries == { <<"a">>, <<" ", "A">>, <<"a", ":", "b">> }
DbPaths == { <<"d">>, <<"b", ":", "d">> }
Results == { "r1", "r2" }

Keys == { GetKey(q, d) : q \in Queries, d \in DbPaths }

----------------------------------------------------------------------------
(* QueryCache: the statements of get and set, as functions of the two maps *)

\* key in self.cache
CacheHas(c, k) == \E i \in 1..Len(c) : c[i].key = k

CacheKeys(c) == { c[i].key : i \in 1..Len(c) }

\* self.cache[key] (read)
CacheValue(c, k) == c[CHOOSE i \in 1..Len(c) : c[i].key = k].value

\* del self.cache[key]
DelCache(c, k) == SelectSeq(c, LAMBDA e : e.key # k)

\* mutant of DelTs: the timestamp is left behind
DelTs_Skipped(ts, k) == ts

\* del self.timestamps[key]
DelTs(ts, k) == [x \in (DOMAIN ts) \ {k} |-> ts[x]]

\* mutant of MoveToEnd: the recency update is left out
MoveToEnd_Skipped(c, k) == c

\* self.cache.move_to_end(key)
MoveToEnd(c, k) == DelCache(c, k) \o SelectSeq(c, LAMBDA e : e.key = k)

\* self.cache[key] = results: an existing key keeps its place, a new key goes last
SetItem(c, k, v) ==
    IF CacheHas(c, k)
    THEN [i \in 1..Len(c) |-> IF c[i].key = k THEN [key |-> k, value |-> v] ELSE c[i]]
    ELSE Append(c, [key |-> k, value |-> v])

\* self.timestamps[key] = time.time()
SetTs(ts, k, t) == [x \in (DOMAIN ts) \cup {k} |-> IF x = k THEN t ELSE ts[x]]

\* mutant of OldestKey: the newest entry is taken for the oldest
OldestKey_Newest(c) == c[Len(c)].key

\* next(iter(self.cache))
OldestKey(c) == c[1].key

\* mutant of Expired: the entry lives one tick too long
Expired_Late(t, stamp) == t - stamp > Ttl + 1

\* time.time() - self.timestamps[key] > self.ttl_seconds
Expired(t, stamp) == t - stamp > Ttl

\* mutant of AtCapacity: the test "key not in self.cache" is left out
AtCapacity_AnyKey(c, k) == Len(c) >= MaxSize

\* len(self.cache) >= self.max_size and key not in self.cache
AtCapacity(c, k) == Len(c) >= MaxSize /\ ~CacheHas(c, k)

\* what a call returns when it returns None
None == "None"
\* what a call returns when it raises
Raised == "Raised"

----------------------------------------------------------------------------
(* QueryCache: whole calls, one at a time *)

\* QueryCache.get: the two maps and the returned value after the call
GetCall(c, ts, t, k) ==
    IF ~CacheHas(c, k) THEN [cache |-> c, timestamps |-> ts, ret |-> None]
    ELSE IF k \notin DOMAIN ts THEN [cache |-> c, timestamps |-> ts, ret |-> Raised]
    ELSE IF Expired(t, ts[k])
         THEN [cache |-> DelCache(c, k), timestamps |-> DelTs(ts, k), ret |-> None]
         ELSE [cache |-> MoveToEnd(c, k), timestamps |-> ts,
               ret |-> CacheValue(MoveToEnd(c, k), k)]

\* QueryCache.set, the eviction: the two maps after "Remove oldest if at capacity"
SetEvict(c, ts, k) ==
    IF AtCapacity(c, k)
    THEN [cache |-> DelCache(c, OldestKey(c)), timestamps |-> DelTs(ts, OldestKey(c))]
    ELSE [cache |-> c, timestamps |-> ts]

\* QueryCache.set: the two maps after the call
SetCall(c, ts, t, k, v) ==
    LET e == SetEvict(c, ts, k)
    IN  [cache |-> MoveToEnd(SetItem(e.cache, k, v), k),
         timestamps |-> SetTs(e.timestamps, k, t)]

(* History the claims are stated against; the code does not read it. *)

\* ranks 1..n in the order of the values of f, 0 kept for "never"
Dense(f) ==
    [k \in DOMAIN f |->
        IF f[k] = 0 THEN 0
        ELSE Cardinality({ j \in DOMAIN f : f[j] > 0 /\ f[j] <= f[k] })]

\* key k has just been used: it gets the highest rank
Touch(lu, k) == Dense([lu EXCEPT ![k] = Cardinality(DOMAIN lu) + 1])

\* a get of key k at time t finds a live entry
LiveHit(c, ts, t, k) == CacheHas(c, k) /\ k \in DOMAIN ts /\ t - ts[k] <= Ttl

NoThreads == <<>>

CacheInit ==
    /\ cache = <<>>
    /\ timestamps = <<>>
    /\ now = 0
    /\ op = [name |-> "init", q |-> <<>>, d |-> <<>>, val |-> None, ret |-> None, had |-> FALSE]
    /\ lastUse = [k \in Keys |-> 0]
    /\ lastSet = [k \in Keys |-> -1]
    /\ run = <<>>

\* a caller runs _query_cache.get(q, d) to completion
Get(q, d) ==
    LET k == GetKey(q, d)
        r == GetCall(cache, timestamps, now, k)
    IN  /\ cache' = r.cache
        /\ timestamps' = r.timestamps
        /\ op' = [name |-> "get", q |-> q, d |-> d, val |-> None, ret |-> r.ret,
                 had |-> CacheHas(cache, k)]
        /\ lastUse' = IF LiveHit(cache, timestamps, now, k) THEN Touch(lastUse, k) ELSE lastUse
        /\ run' = <<"off">>
        /\ UNCHANGED <<clsSide, cmpSide, pipeSide, now, lastSet, thr>>

\* a caller runs _query_cache.set(q, d, v) to completion
Set(q, d, v) ==
    LET k == GetKey(q, d)
        r == SetCall(cache, timestamps, now, k, v)
    IN  /\ cache' = r.cache
        /\ timestamps' = r.timestamps
        /\ op' = [name |-> "set", q |-> q, d |-> d, val |-> v, ret |-> None,
                 had |-> CacheHas(cache, k)]
        /\ lastUse' = Touch(lastUse, k)
        /\ lastSet' = [lastSet EXCEPT ![k] = now]
        /\ run' = IF run # <<"off">> /\ Len(run) <= MaxSize /\ k \notin { run[i] : i \in 1..Len(run) }
                  THEN Append(run, k) ELSE <<"off">>
        /\ UNCHANGED <<clsSide, cmpSide, pipeSide, now, thr>>

\* a caller runs _query_cache.clear()
Clear ==
    /\ cache' = <<>>
    /\ timestamps' = <<>>
    /\ op' = [name |-> "clear", q |-> <<>>, d |-> <<>>, val |-> None, ret |-> None, had |-> FALSE]
    /\ run' = <<"off">>
    /\ UNCHANGED <<clsSide, cmpSide, pipeSide, now, lastUse, lastSet, thr>>

\* the clock advances between two calls
Tick ==
    /\ now < MaxTime
    /\ now' = now + 1
    /\ op' = [name |-> "tick", q |-> <<>>, d |-> <<>>, val |-> None, ret |-> None, had |-> FALSE]
    /\ UNCHANGED <<clsSide, cmpSide, pipeSide, cache, timestamps, lastUse, lastSet, run, thr>>

Init == CacheInit /\ thr = NoThreads /\ ClsIdle /\ CmpIdle /\ PipeIdle

Next ==
    \/ \E q \in Queries, d \in DbPaths : Get(q, d)
    \/ \E q \in Queries, d \in DbPaths, v \in Results : Set(q, d, v)
    \/ Clear
    \/ Tick

Spec == Init /\ [][Next]_vars

----------------------------------------------------------------------------
(* Claims about the result cache, one call at a time *)

RunKeys(r) == { r[i] : i \in 1..Len(r) }

\* the key of the call that has just completed
OpKey(o) == GetKey(o.q, o.d)

\* the least recently used of the keys of c, by the history of sets and live get hits
Lru(c, lu) == CHOOSE k \in CacheKeys(c) : \A j \in CacheKeys(c) : lu[k] <= lu[j]

\* the order in which repeated capacity evictions would remove the entries of c
RECURSIVE EvictionOrder(_)
EvictionOrder(c) ==
    IF c = <<>> THEN <<>>
    ELSE <<OldestKey(c)>> \o EvictionOrder(DelCache(c, OldestKey(c)))

\* C1: a set of a key not yet present, on a cache holding max_size entries, removes
\* exactly one entry, the least recently used one (recency = last set or last live
\* get hit), leaves every other entry as it was and inserts the new one; after
\* max_size + 1 sets of distinct keys only the first of them is missing.
C1_SetEvictsLRU ==
    [][ (op'.name = "set" /\ Len(cache) = MaxSize /\ ~CacheHas(cache, OpKey(op')))
        => LET k == OpKey(op')
               lru == Lru(cache, lastUse)
           IN  /\ CacheKeys(cache') = (CacheKeys(cache) \ {lru}) \cup {k}
               /\ Len(cache') = MaxSize
               /\ DOMAIN timestamps' = CacheKeys(cache')
               /\ \A j \in CacheKeys(cache) \ {lru} :
                     /\ CacheValue(cache', j) = CacheValue(cache, j)
                     /\ timestamps'[j] = timestamps[j]
               /\ CacheValue(cache', k) = op'.val
               /\ (run' # <<"off">> /\ Len(run') = MaxSize + 1)
                     => CacheKeys(cache') = RunKeys(run') \ {run'[1]}
      ]_vars

\* C1 witness: max_size + 1 distinct keys have been set, the last one on a full cache
C1_Witness ==
    /\ op.name = "set" /\ ~op.had
    /\ run # <<"off">> /\ Len(run) = MaxSize + 1
    /\ Len(cache) = MaxSize

\* C2: get never returns a value set more than ttl_seconds ago; a get of such an
\* entry returns a miss, also when the entry is the most recently used one, and
\* removes it from the entry map and from the timestamp map.
C2_NoStaleHit ==
    [][ op'.name = "get"
        => LET k == OpKey(op')
           IN  /\ op'.ret \in Results => (lastSet[k] >= 0 /\ now - lastSet[k] <= Ttl)
               /\ (CacheHas(cache, k) /\ now - lastSet[k] > Ttl)
                     => /\ op'.ret = None
                        /\ ~CacheHas(cache', k)
                        /\ k \notin DOMAIN timestamps'
      ]_vars

\* C2 witness: a get has just missed on an entry that was present, older than the
\* TTL and the most recently used of all keys
C2_Witness ==
    /\ op.name = "get" /\ op.had /\ op.ret = None
    /\ lastSet[OpKey(op)] >= 0 /\ now - lastSet[OpKey(op)] > Ttl
    /\ \A j \in Keys : lastUse[j] <= lastUse[OpKey(op)]
    /\ Len(cache) >= 1

\* C3: a get that hits a live entry returns its value and makes it the last of the
\* eviction order, every other entry present keeping its place before it, and
\* leaves all timestamps (the entry's own included) unchanged.
C3_HitRefreshesRecency ==
    [][ (op'.name = "get" /\ op'.ret \in Results)
        => LET k == OpKey(op')
               before == EvictionOrder(cache)
               after == EvictionOrder(cache')
           IN  /\ after # <<>> /\ after[Len(after)] = k
               /\ SelectSeq(after, LAMBDA x : x # k) = SelectSeq(before, LAMBDA x : x # k)
               /\ Len(after) = Len(before)
               /\ timestamps' = timestamps
               /\ op'.ret = CacheValue(cache, k)
      ]_vars

\* C3 witness: a get has just hit an entry that was set before another entry still
\* present, and the entry hit is now the last to be evicted
C3_Witness ==
    /\ op.name = "get" /\ op.ret \in Results
    /\ \E j \in CacheKeys(cache) : lastSet[j] > lastSet[OpKey(op)]
    /\ EvictionOrder(cache)[Len(cache)] = OpKey(op)

\* C5: right after set(q1, c1) has left its entry alone in the cache, get(q2, c2)
\* hits exactly when lowercase-and-trim(q1) = lowercase-and-trim(q2) and c1 = c2.
C5_HitIffSameNormalizedPair ==
    [][ (op.name = "set" /\ Len(cache) = 1 /\ op'.name = "get")
        => ((op'.ret \in Results)
              <=> (Strip(Lower(op.q)) = Strip(Lower(op'.q)) /\ op.d = op'.d))
      ]_vars

----------------------------------------------------------------------------
(* The shared cache under concurrent callers: each statement of get and set *)
(* is one step, and the steps of the callers interleave.  _query_cache has  *)
(* no lock.                                                                 *)

\* the number of query resolutions (calls of main) running at the same time
NThreads == 2

Threads == 1..NThreads

\* a resolution that has not begun: main(query, db_path, use_cache=True) begins with
\* _query_cache.get, and on a miss ends with _query_cache.set of the same key
Fresh ==
    [pc |-> "start", key |-> <<>>, val |-> None, oldest |-> <<>>, raised |-> FALSE]

\* the cache after set has been called, one call at a time, with each key of ks
RECURSIVE Populate(_)
Populate(ks) ==
    IF ks = <<>> THEN [cache |-> <<>>, timestamps |-> <<>>]
    ELSE LET p == Populate(SubSeq(ks, 1, Len(ks) - 1))
         IN  SetCall(p.cache, p.timestamps, 0, ks[Len(ks)], "r1")

\* the earlier resolutions, already completed one after the other
Earlier == UNION { [1..n -> Keys] : n \in 0..MaxSize }

ConcInit ==
    /\ \E ks \in Earlier :
          /\ cache = Populate(ks).cache
          /\ timestamps = Populate(ks).timestamps
    /\ now = 0
    /\ op = [name |-> "init", q |-> <<>>, d |-> <<>>, val |-> None, ret |-> None, had |-> FALSE]
    /\ lastUse = [k \in Keys |-> 0]
    /\ lastSet = [k \in Keys |-> -1]
    /\ run = <<"off">>
    /\ thr = [t \in Threads |-> Fresh]
    /\ ClsIdle /\ CmpIdle /\ PipeIdle

\* the call ends with an exception (KeyError, StopIteration), and so does main
Raise(t) == thr' = [thr EXCEPT ![t].pc = "done", ![t].raised = TRUE]

\* get returns r: main returns on a hit and goes on to resolve the query on a miss
GetReturn(t, r) == thr' = [thr EXCEPT ![t].pc = IF r = None THEN "miss" ELSE "done"]

\* set returns, and main with it
SetReturn(t) == thr' = [thr EXCEPT ![t].pc = "done"]

Goto(t, pc) == thr' = [thr EXCEPT ![t].pc = pc]

ghost == <<op, lastUse, lastSet, run>>

\* main, line 125, and get, line 38: key = self._get_key(query, db_path)
GetEnter(t, q, d) ==
    /\ thr[t].pc = "start"
    /\ thr' = [thr EXCEPT ![t].pc = "get40", ![t].key = GetKey(q, d)]
    /\ UNCHANGED <<clsSide, cmpSide, pipeSide, cache, timestamps, now, ghost>>

\* get, lines 40-41: if key not in self.cache: return None
Get40(t) ==
    /\ thr[t].pc = "get40"
    /\ IF CacheHas(cache, thr[t].key) THEN Goto(t, "get44") ELSE GetReturn(t, None)
    /\ UNCHANGED <<clsSide, cmpSide, pipeSide, cache, timestamps, now, ghost>>

\* get, line 44: if time.time() - self.timestamps[key] > self.ttl_seconds
Get44(t) ==
    /\ thr[t].pc = "get44"
    /\ IF thr[t].key \notin DOMAIN timestamps THEN Raise(t)
       ELSE IF Expired(now, timestamps[thr[t].key]) THEN Goto(t, "get46")
       ELSE Goto(t, "get51")
    /\ UNCHANGED <<clsSide, cmpSide, pipeSide, cache, timestamps, now, ghost>>

\* get, line 46: del self.cache[key]
Get46(t) ==
    /\ thr[t].pc = "get46"
    /\ IF CacheHas(cache, thr[t].key)
       THEN cache' = DelCache(cache, thr[t].key) /\ Goto(t, "get47")
       ELSE cache' = cache /\ Raise(t)
    /\ UNCHANGED <<clsSide, cmpSide, pipeSide, timestamps, now, ghost>>

\* get, lines 47-48: del self.timestamps[key]; return None
Get47(t) ==
    /\ thr[t].pc = "get47"
    /\ IF thr[t].key \in DOMAIN timestamps
       THEN timestamps' = DelTs(timestamps, thr[t].key) /\ GetReturn(t, None)
       ELSE timestamps' = timestamps /\ Raise(t)
    /\ UNCHANGED <<clsSide, cmpSide, pipeSide, cache, now, ghost>>

\* get, line 51: self.cache.move_to_end(key)
Get51(t) ==
    /\ thr[t].pc = "get51"
    /\ IF CacheHas(cache, thr[t].key)
       THEN cache' = MoveToEnd(cache, thr[t].key) /\ Goto(t, "get52")
       ELSE cache' = cache /\ Raise(t)
    /\ UNCHANGED <<clsSide, cmpSide, pipeSide, timestamps, now, ghost>>

\* get, line 52: return self.cache[key]
Get52(t) ==
    /\ thr[t].pc = "get52"
    /\ IF CacheHas(cache, thr[t].key)
       THEN GetReturn(t, CacheValue(cache, thr[t].key))
       ELSE Raise(t)
    /\ UNCHANGED <<clsSide, cmpSide, pipeSide, cache, timestamps, now, ghost>>

\* main, lines 145, 207, 213, 223: the resolution ends with nothing to cache
ResolveNoSet(t) ==
    /\ thr[t].pc = "miss"
    /\ thr' = [thr EXCEPT ![t].pc = "done"]
    /\ UNCHANGED <<clsSide, cmpSide, pipeSide, cache, timestamps, now, ghost>>

\* main, lines 172, 246, and set, line 56: the resolution caches its results v
SetEnter(t, v) ==
    /\ thr[t].pc = "miss"
    /\ thr' = [thr EXCEPT ![t].pc = "set59", ![t].val = v]
    /\ UNCHANGED <<clsSide, cmpSide, pipeSide, cache, timestamps, now, ghost>>

\* set, line 59: if len(self.cache) >= self.max_size and key not in self.cache
Set59(t) ==
    /\ thr[t].pc = "set59"
    /\ IF AtCapacity(cache, thr[t].key) THEN Goto(t, "set60") ELSE Goto(t, "set64")
    /\ UNCHANGED <<clsSide, cmpSide, pipeSide, cache, timestamps, now, ghost>>

\* set, line 60: oldest_key = next(iter(self.cache))
Set60(t) ==
    /\ thr[t].pc = "set60"
    /\ IF cache = <<>> THEN Raise(t)
       ELSE thr' = [thr EXCEPT ![t].pc = "set61", ![t].oldest = OldestKey(cache)]
    /\ UNCHANGED <<clsSide, cmpSide, pipeSide, cache, timestamps, now, ghost>>

\* set, line 61: del self.cache[oldest_key]
Set61(t) ==
    /\ thr[t].pc = "set61"
    /\ IF CacheHas(cache, thr[t].oldest)
       THEN cache' = DelCache(cache, thr[t].oldest) /\ Goto(t, "set62")
       ELSE cache' = cache /\ Raise(t)
    /\ UNCHANGED <<clsSide, cmpSide, pipeSide, timestamps, now, ghost>>

\* set, line 62: del self.timestamps[oldest_key]
Set62(t) ==
    /\ thr[t].pc = "set62"
    /\ IF thr[t].oldest \in DOMAIN timestamps
       THEN timestamps' = DelTs(timestamps, thr[t].oldest) /\ Goto(t, "set64")
       ELSE timestamps' = timestamps /\ Raise(t)
    /\ UNCHANGED <<clsSide, cmpSide, pipeSide, cache, now, ghost>>

\* set, line 64: self.cache[key] = results
Set64(t) ==
    /\ thr[t].pc = "set64"
    /\ cache' = SetItem(cache, thr[t].key, thr[t].val)
    /\ Goto(t, "set65")
    /\ UNCHANGED <<clsSide, cmpSide, pipeSide, timestamps, now, ghost>>

\* set, line 65: self.timestamps[key] = time.time()
Set65(t) ==
    /\ thr[t].pc = "set65"
    /\ timestamps' = SetTs(timestamps, thr[t].key, now)
    /\ Goto(t, "set66")
    /\ UNCHANGED <<clsSide, cmpSide, pipeSide, cache, now, ghost>>

\* set, line 66: self.cache.move_to_end(key)
Set66(t) ==
    /\ thr[t].pc = "set66"
    /\ IF CacheHas(cache, thr[t].key)
       THEN cache' = MoveToEnd(cache, thr[t].key) /\ SetReturn(t)
       ELSE cache' = cache /\ Raise(t)
    /\ UNCHANGED <<clsSide, cmpSide, pipeSide, timestamps, now, ghost>>

\* the clock advances while calls are in progress
ConcTick ==
    /\ now < MaxTime
    /\ now' = now + 1
    /\ UNCHANGED <<clsSide, cmpSide, pipeSide, cache, timestamps, thr, ghost>>

ConcNext ==
    \/ \E t \in Threads, q \in Queries, d \in DbPaths : GetEnter(t, q, d)
    \/ \E t \in Threads : Get40(t)
    \/ \E t \in Threads : Get44(t)
    \/ \E t \in Threads : Get46(t)
    \/ \E t \in Threads : Get47(t)
    \/ \E t \in Threads : Get51(t)
    \/ \E t \in Threads : Get52(t)
    \/ \E t \in Threads : ResolveNoSet(t)
    \/ \E t \in Threads, v \in Results : SetEnter(t, v)
    \/ \E t \in Threads : Set59(t)
    \/ \E t \in Threads : Set60(t)
    \/ \E t \in Threads : Set61(t)
    \/ \E t \in Threads : Set62(t)
    \/ \E t \in Threads : Set64(t)
    \/ \E t \in Threads : Set65(t)
    \/ \E t \in Threads : Set66(t)
    \/ ConcTick

SpecConc == ConcInit /\ [][ConcNext]_vars

\* C4: with the statements of concurrent get and set calls interleaving, no call
\* raises, and whenever no call is in progress the entry map and the timestamp map
\* have the same keys and hold at most max_size entries.
C4_ConcurrentCallsAtomic ==
    /\ \A t \in Threads : ~thr[t].raised
    /\ (\A t \in Threads : thr[t].pc \in {"start", "done"})
          => /\ CacheKeys(cache) = DOMAIN timestamps
             /\ Len(cache) <= MaxSize

----------------------------------------------------------------------------
(* Query classifier (query_classifier.py).  A query is the sequence of its  *)
(* words: the text is words of word characters separated by white space, so *)
(* \b falls at the word ends and \s+ between two words.                     *)

\* the longest query explored, in words
MaxWords == 3

\* the words the explored queries are made of
Words == { "lawyers", "Partners", "went", "to", "yale", "worked", "on", "IPO", "case", "office" }

\* str.lower() on a word
LowerWord(w) ==
    CASE w = "Partners" -> "partners"
      [] w = "IPO" -> "ipo"
      [] OTHER -> w

\* query.lower().strip(): the words of a query carry no outer white space
QueryLower(q) == [i \in 1..Len(q) |-> LowerWord(q[i])]

\* \d{4} at the start of a word
StartsWithYear(w) == w \in { "2015", "2020", "1999" }

\* (in|at) at the start of a word
StartsWithInAt(w) == w \in { "in", "at", "into", "attended", "inside" }

\* some word of q is in ws
HasWord(q, ws) == \E i \in 1..Len(q) : q[i] \in ws

\* a word of as is directly followed by a word of bs
HasPair(q, as, bs) == \E i \in 1..(Len(q) - 1) : q[i] \in as /\ q[i + 1] \in bs

\* a word of as is directly followed by some word (\s+\w+)
HasWordThenAny(q, as) == \E i \in 1..(Len(q) - 1) : q[i] \in as

\* the words a, b are directly followed by some word
HasPairThenAny(q, a, b) == \E i \in 1..(Len(q) - 2) : q[i] = a /\ q[i + 1] = b

NSimplePatterns == 8
NComplexPatterns == 5

\* re.search(simple_patterns[i], query_lower)
SimpleMatch(i, q) ==
    CASE i = 1 -> HasWord(q, {"named", "called"}) \/ HasPair(q, {"with"}, {"name"})
      [] i = 2 -> \/ HasPairThenAny(q, "went", "to")
                  \/ HasPairThenAny(q, "graduated", "from")
                  \/ HasWordThenAny(q, {"attended"})
                  \/ HasPairThenAny(q, "studied", "at")
      [] i = 3 -> HasWord(q, {"partner", "partners", "associate", "associates",
                              "counsel", "counsels", "senior", "seniors"})
      [] i = 4 -> HasWordThenAny(q, {"speak", "speaks", "speaking"})
      [] i = 5 -> \E j \in 1..(Len(q) - 2) :
                     /\ q[j] \in {"graduated", "graduation"}
                     /\ q[j + 1] \in {"after", "before", "in"}
                     /\ StartsWithYear(q[j + 2])
      [] i = 6 -> \E j \in 1..(Len(q) - 1) :
                     /\ q[j] \in {"office", "location", "based", "located"}
                     /\ StartsWithInAt(q[j + 1])
      [] i = 7 -> HasWord(q, {"practice", "practices", "area"})
      [] i = 8 -> Len(q) = 2

\* re.search(complex_patterns[i], query_lower)
ComplexMatch(i, q) ==
    CASE i = 1 -> \/ HasPair(q, {"worked"}, {"on"})
                  \/ HasWord(q, {"represented", "defended", "prosecuted", "handled"})
      [] i = 2 -> HasWord(q, {"case", "deal", "transaction", "matter", "litigation",
                              "ipo", "merger", "acquisition"})
      [] i = 3 -> HasPair(q, {"experience", "expertise", "background"}, {"with", "in"})
      [] i = 4 -> \/ HasWord(q, {"fortune500", "techcompany", "techcompanies",
                                 "techstartup", "pharma", "bank"})
                  \/ HasPair(q, {"fortune"}, {"500"})
                  \/ HasPair(q, {"tech"}, {"company", "companies", "startup"})
      [] i = 5 -> \/ HasWord(q, {"tvnetwork", "streaming", "broadcast", "media"})
                  \/ HasPair(q, {"tv"}, {"network"})

\* mutant of HasComplex: the check for complex patterns is left out
HasComplex_Skipped(q) == FALSE

\* has_complex = any(re.search(p, query_lower) for p in complex_patterns)
HasComplex(q) == \E i \in 1..NComplexPatterns : ComplexMatch(i, q)

\* for pattern in complex_patterns: ... return 'complex'; then return 'unknown'
RECURSIVE ComplexLoop(_, _)
ComplexLoop(q, i) ==
    IF i > NComplexPatterns THEN "unknown"
    ELSE IF ComplexMatch(i, q) THEN "complex"
    ELSE ComplexLoop(q, i + 1)

\* for pattern in simple_patterns: ... return 'simple'; then the complex patterns
RECURSIVE SimpleLoop(_, _)
SimpleLoop(q, i) ==
    IF i > NSimplePatterns THEN ComplexLoop(q, 1)
    ELSE IF SimpleMatch(i, q) /\ ~HasComplex(q) THEN "simple"
    ELSE SimpleLoop(q, i + 1)

\* classify_query_fast
ClassifyQueryFast(q) == SimpleLoop(QueryLower(q), 1)

\* what the judge may answer
JudgeAnswers ==
    { <<"s", "i", "m", "p", "l", "e">>,
      <<"c", "o", "m", "p", "l", "e", "x">>,
      <<" ", "S", "i", "m", "p", "l", "e", "\n">>,
      <<"C", "O", "M", "P", "L", "E", "X">>,
      <<"s", "i", "m", "p", "l", "e", ".">>,
      <<"s", "e", "m", "a", "n", "t", "i", "c">>,
      <<>> }

\* mutant of JudgeLabel: an invalid answer defaults to 'simple'
JudgeLabel_DefaultSimple(answer) ==
    IF Lower(Strip(answer)) = <<"c", "o", "m", "p", "l", "e", "x">> THEN "complex" ELSE "simple"

\* response = llm(...).strip().lower(); if response not in ['simple', 'complex']:
\* return 'complex'; return response
JudgeLabel(answer) ==
    LET response == Lower(Strip(answer))
    IN  IF response = <<"s", "i", "m", "p", "l", "e">> THEN "simple"
        ELSE IF response = <<"c", "o", "m", "p", "l", "e", "x">> THEN "complex"
        ELSE "complex"

AllQueries == UNION { [1..n -> Words] : n \in 1..MaxWords }

ClsInit ==
    /\ query \in AllQueries
    /\ fast = "pending"
    /\ said = <<>>
    /\ label = "pending"
    /\ judgeCalls = 0

\* classify_query, lines 73-107: the pattern stage; the judge is called on 'unknown'
ClassifyFast ==
    /\ fast = "pending"
    /\ fast' = ClassifyQueryFast(query)
    /\ IF fast' # "unknown"
       THEN label' = fast' /\ judgeCalls' = judgeCalls
       ELSE label' = "pending" /\ judgeCalls' = judgeCalls + 1
    /\ UNCHANGED <<query, said, cacheSide, cmpSide, pipeSide>>

\* classify_query, lines 107-118: the judge answers
JudgeAnswer(answer) ==
    /\ fast = "unknown" /\ label = "pending"
    /\ said' = answer
    /\ label' = JudgeLabel(answer)
    /\ UNCHANGED <<query, fast, judgeCalls, cacheSide, cmpSide, pipeSide>>

ClsNext ==
    \/ ClassifyFast
    \/ \E answer \in JudgeAnswers : JudgeAnswer(answer)

ClassifyInit == ClsInit /\ CacheInit /\ thr = NoThreads /\ CmpIdle /\ PipeIdle

SpecClassify == ClassifyInit /\ [][ClsNext]_vars

\* the query matches at least one structured (simple) pattern
AnySimple(q) == \E i \in 1..NSimplePatterns : SimpleMatch(i, QueryLower(q))

\* the query matches at least one semantic (complex) pattern
AnyComplex(q) == \E i \in 1..NComplexPatterns : ComplexMatch(i, QueryLower(q))

\* C6: classify_query_fast returns 'simple' only for a query that matches a
\* structured pattern and no semantic pattern, and returns 'complex' for every
\* query that matches a semantic pattern, structured patterns matching or not.
C6_SemanticTakesPrecedence ==
    fast \notin {"idle", "pending"}
    => /\ fast = "simple" => (AnySimple(query) /\ ~AnyComplex(query))
       /\ AnyComplex(query) => fast = "complex"

\* C6 witness: a query matching both kinds of pattern has been classified 'complex'
C6_Witness ==
    /\ fast = "complex"
    /\ AnySimple(query) /\ AnyComplex(query)

\* the label each judge answer stands for: the answer itself when it is a valid
\* label up to case and outer white space, the default 'complex' otherwise
ExpectedLabel(answer) ==
    CASE answer = <<"s", "i", "m", "p", "l", "e">> -> "simple"
      [] answer = <<" ", "S", "i", "m", "p", "l", "e", "\n">> -> "simple"
      [] answer = <<"c", "o", "m", "p", "l", "e", "x">> -> "complex"
      [] answer = <<"C", "O", "M", "P", "L", "E", "X">> -> "complex"
      [] OTHER -> "complex"

\* C7: the judge is called only when the pattern stage returned 'unknown', and at
\* most once; the result is then the judge's label when it is a valid one and
\* 'complex' for every other answer; every result is 'simple' or 'complex'.
C7_JudgeOnlyOnUnknown ==
    /\ judgeCalls > 0 => (fast = "unknown" /\ judgeCalls = 1)
    /\ (fast \notin {"idle", "pending", "unknown"}) => (label = fast /\ judgeCalls = 0)
    /\ (label \notin {"idle", "pending"})
          => /\ label \in {"simple", "complex"}
             /\ fast = "unknown" => label = ExpectedLabel(said)

\* C7 witness: the judge was asked and gave an answer that is no valid label
C7_Witness ==
    /\ fast = "unknown" /\ judgeCalls = 1
    /\ said = <<"s", "i", "m", "p", "l", "e", ".">>
    /\ label = "complex"

----------------------------------------------------------------------------
(* Predicate compiler (search.py, compile_ast_to_sql).  Text values are     *)
(* sequences of characters; a value is a text or an integer.                *)

\* a text value, an integer value
StrV(chars) == [kind |-> "str", n |-> 0, s |-> chars]
IntV(i) == [kind |-> "int", n |-> i, s |-> <<>>]

DigitChar(d) ==
    CASE d = 0 -> "0" [] d = 1 -> "1" [] d = 2 -> "2" [] d = 3 -> "3" [] d = 4 -> "4"
      [] d = 5 -> "5" [] d = 6 -> "6" [] d = 7 -> "7" [] d = 8 -> "8" [] OTHER -> "9"

\* str(i) for an integer i >= 0
RECURSIVE IntToChars(_)
IntToChars(i) ==
    IF i < 10 THEN <<DigitChar(i)>> ELSE IntToChars(i \div 10) \o <<DigitChar(i % 10)>>

\* str(value)
Str(v) == IF v.kind = "str" THEN v.s ELSE IntToChars(v.n)

\* a connective node {'op': o}, a predicate node {'field': f, 'op': o, 'value': v};
\* a key that is missing is ""
Connective(o) == [field |-> "", op |-> o, value |-> StrV(<<>>)]
Predicate(f, o, v) == [field |-> f, op |-> o, value |-> v]

\* node.get('op') in ['AND', 'OR', 'NOT']
IsConnective(node) == node.op \in {"AND", "OR", "NOT"}

\* the alias table `schools` of the database: (normalized_name, alias)
SchoolAliases ==
    { [normalized_name |-> <<"Y", "a", "l", "e">>, alias |-> <<"Y", "U">>] }

\* database.get_school_normalized: exact match, then case-insensitive match, then
\* the name unchanged
GetSchoolNormalized(school_name) ==
    LET exact == { a \in SchoolAliases :
                      a.normalized_name = school_name \/ a.alias = school_name }
        folded == { a \in SchoolAliases :
                      \/ Lower(a.normalized_name) = Lower(school_name)
                      \/ Lower(a.alias) = Lower(school_name) }
    IN  IF exact # {} THEN (CHOOSE a \in exact : TRUE).normalized_name
        ELSE IF folded # {} THEN (CHOOSE a \in folded : TRUE).normalized_name
        ELSE school_name

\* the words of a text: str.split()
RECURSIVE SplitWords(_, _)
SplitWords(chars, word) ==
    IF chars = <<>> THEN (IF word = <<>> THEN <<>> ELSE <<word>>)
    ELSE IF IsSpace(Head(chars))
         THEN (IF word = <<>> THEN <<>> ELSE <<word>>) \o SplitWords(Tail(chars), <<>>)
         ELSE SplitWords(Tail(chars), Append(word, Head(chars)))

\* ' '.join(words)
RECURSIVE JoinWords(_)
JoinWords(ws) ==
    IF ws = <<>> THEN <<>>
    ELSE IF Len(ws) = 1 THEN ws[1]
    ELSE ws[1] \o <<" ">> \o JoinWords(Tail(ws))

\* f"%{value}%"
Percent(v) == StrV(<<"%">> \o Str(v) \o <<"%">>)

YearFields == {"law_school_year", "undergrad_year", "graduated"}

\* handle_temporal_query(node, 'law_school_year'): the node as it is left in the list
HandleTemporalQuery(node) ==
    IF node.field \in {"law_school_year", "undergrad_year"} THEN node
    ELSE IF node.field = "graduated" THEN [node EXCEPT !.field = "law_school_year"]
    ELSE node

\* mutant of YearCondition: the restriction to the law degree is left out
YearCondition_AnyDegree(op_) ==
    CASE op_ = "gt" -> "e.year > ?"
      [] op_ = "lt" -> "e.year < ?"
      [] op_ = "gte" -> "e.year >= ?"
      [] op_ = "lte" -> "e.year <= ?"
      [] op_ = "eq" -> "e.year = ?"
      [] OTHER -> ""

\* lines 127-141: the condition of a graduation-year predicate, "" for no condition
YearCondition(op_) ==
    CASE op_ = "gt" -> "e.year > ? AND e.is_law_degree = 1"
      [] op_ = "lt" -> "e.year < ? AND e.is_law_degree = 1"
      [] op_ = "gte" -> "e.year >= ? AND e.is_law_degree = 1"
      [] op_ = "lte" -> "e.year <= ? AND e.is_law_degree = 1"
      [] op_ = "eq" -> "e.year = ? AND e.is_law_degree = 1"
      [] OTHER -> ""

\* lines 79-183: the condition a predicate node produces, "" for None
Condition(node) ==
    LET f == node.field
        o == node.op
    IN  CASE f = "name" /\ o \in {"contains", "eq"} -> "fts.full_name MATCH ?"
          [] f = "title" /\ o = "eq" -> "l.title = ?"
          [] f = "title" /\ o = "contains" -> "l.title LIKE ?"
          [] f = "school" /\ o = "contains" ->
                "(e.school_name LIKE ? OR e.school_normalized LIKE ?)"
          [] f = "school" /\ o = "eq" -> "(e.school_name = ? OR e.school_normalized = ?)"
          [] f \in YearFields -> YearCondition(o)
          [] f = "practice" /\ o = "eq" -> "p.practice_type = ?"
          [] f = "practice" /\ o = "contains" -> "p.practice_type LIKE ?"
          [] f = "industry" /\ o = "eq" -> "ind.industry = ?"
          [] f = "industry" /\ o = "contains" -> "ind.industry LIKE ?"
          [] f = "region" /\ o = "eq" -> "r.region = ?"
          [] f = "region" /\ o = "contains" -> "r.region LIKE ?"
          [] f = "language" /\ o = "eq" -> "LOWER(lang.language) = LOWER(?)"
          [] f = "language" /\ o = "contains" -> "LOWER(lang.language) LIKE LOWER(?)"
          [] OTHER -> ""

\* lines 79-183: the parameters a predicate node appends
NodeParams(node) ==
    LET f == node.field
        o == node.op
        v == node.value
    IN  CASE Condition(node) = "" -> <<>>
          [] f = "name" /\ o = "contains" ->
                <<StrV(JoinWords(SplitWords(Strip(Str(v)), <<>>)))>>
          [] f = "name" /\ o = "eq" -> <<StrV(<<"\"">> \o Str(v) \o <<"\"">>)>>
          [] f = "school" /\ o = "contains" ->
                <<Percent(v), Percent(StrV(GetSchoolNormalized(Str(v))))>>
          [] f = "school" /\ o = "eq" -> <<v, StrV(GetSchoolNormalized(Str(v)))>>
          [] f \in YearFields -> <<v>>
          [] o = "contains" -> <<Percent(v)>>
          [] OTHER -> <<v>>

\* lines 81-175: the table a predicate node adds to joins, whatever its operator
NodeJoins(node) ==
    CASE node.field = "school" -> {"educations"}
      [] node.field \in YearFields -> {"educations"}
      [] node.field = "practice" -> {"practices"}
      [] node.field = "industry" -> {"industries"}
      [] node.field = "region" -> {"regions"}
      [] node.field = "language" -> {"languages"}
      [] OTHER -> {}

\* line 81: fts_joins.add('lawyers_fts')
NodeFtsJoins(node) == IF node.field = "name" THEN {"lawyers_fts"} ELSE {}

\* mutant of NeedsAnd: the test of the last part of the clause is left out
NeedsAnd_IgnoresLast(st) == ~st.is_first_condition

\* line 187: not is_first_condition and where_parts and where_parts[-1] not in
\* ['AND', 'OR', 'NOT']
NeedsAnd(st) ==
    /\ ~st.is_first_condition
    /\ st.where_parts # <<>>
    /\ st.where_parts[Len(st.where_parts)] \notin {"AND", "OR", "NOT"}

\* lines 45-50: the state of the loop before the first node
LoopStart ==
    [where_parts |-> <<>>, params |-> <<>>, joins |-> {}, fts_joins |-> {},
     is_first_condition |-> TRUE]

\* lines 54-192: one pass of the loop, on node
LoopStep(st, node) ==
    IF IsConnective(node)
    THEN [st EXCEPT !.where_parts = Append(@, node.op), !.is_first_condition = FALSE]
    ELSE IF node.field = "" \/ node.op = ""
    THEN st
    ELSE LET joined == [st EXCEPT !.joins = @ \cup NodeJoins(node),
                                  !.fts_joins = @ \cup NodeFtsJoins(node),
                                  !.params = @ \o NodeParams(node)]
         IN  IF Condition(node) = "" THEN joined
             ELSE [joined EXCEPT
                     !.where_parts = (IF NeedsAnd(st) THEN Append(@, "AND") ELSE @)
                                        \o <<Condition(node)>>,
                     !.is_first_condition = FALSE]

\* lines 52-192: the loop over the nodes
RECURSIVE Loop(_)
Loop(nodes) ==
    IF nodes = <<>> THEN LoopStart
    ELSE LoopStep(Loop(SubSeq(nodes, 1, Len(nodes) - 1)), nodes[Len(nodes)])

\* lines 194-208: the JOIN clauses, in the order the code adds them
JoinClauses(st) ==
    (IF "lawyers_fts" \in st.fts_joins
        THEN <<"INNER JOIN lawyers_fts fts ON l.id = fts.rowid">> ELSE <<>>)
    \o (IF "educations" \in st.joins
        THEN <<"LEFT JOIN educations e ON l.id = e.lawyer_id">> ELSE <<>>)
    \o (IF "practices" \in st.joins
        THEN <<"LEFT JOIN practices p ON l.id = p.lawyer_id">> ELSE <<>>)
    \o (IF "industries" \in st.joins
        THEN <<"LEFT JOIN industries ind ON l.id = ind.lawyer_id">> ELSE <<>>)
    \o (IF "regions" \in st.joins
        THEN <<"LEFT JOIN regions r ON l.id = r.lawyer_id">> ELSE <<>>)
    \o (IF "languages" \in st.joins
        THEN <<"LEFT JOIN languages lang ON l.id = lang.lawyer_id">> ELSE <<>>)

SelectFrom == "SELECT DISTINCT l.id, l.name, l.url FROM lawyers l"

\* the literal a value would be written as inside the text
InlineLiteral(v) ==
    IF v.kind = "int" THEN "<int literal>"
    ELSE IF v.s = <<"T", "a", "x">> THEN "'Tax'"
    ELSE "<str literal>"

\* mutant of CompileAstToSql: the first value is written into the text
CompileAstToSql_Interpolated(nodes) ==
    IF nodes = <<>> THEN [sql |-> <<SelectFrom>>, params |-> <<>>]
    ELSE LET st == Loop(nodes)
         IN  [sql |-> <<SelectFrom>>
                      \o JoinClauses(st)
                      \o (IF st.where_parts # <<>> THEN <<"WHERE">> \o st.where_parts
                          ELSE <<>>)
                      \o (IF st.params # <<>> THEN <<InlineLiteral(st.params[1])>>
                          ELSE <<>>)
                      \o <<"ORDER BY l.name">>,
              params |-> st.params]

\* compile_ast_to_sql: (sql, params); sql is the sequence of the pieces of the text,
\* which single spaces separate
CompileAstToSql(nodes) ==
    IF nodes = <<>> THEN [sql |-> <<SelectFrom>>, params |-> <<>>]
    ELSE LET st == Loop(nodes)
         IN  [sql |-> <<SelectFrom>>
                      \o JoinClauses(st)
                      \o (IF st.where_parts # <<>> THEN <<"WHERE">> \o st.where_parts
                          ELSE <<>>)
                      \o <<"ORDER BY l.name">>,
              params |-> st.params]

\* the list the caller passed, after the call: handle_temporal_query writes the
\* field of a 'graduated' node in place
AstAfter(nodes) ==
    [i \in 1..Len(nodes) |->
        IF ~IsConnective(nodes[i]) /\ nodes[i].field # "" /\ nodes[i].op # ""
              /\ nodes[i].field \in YearFields
        THEN HandleTemporalQuery(nodes[i]) ELSE nodes[i]]

----------------------------------------------------------------------------
(* execute_query: what the database answers for the compiled text.  The     *)
(* text has no parentheses outside the conditions, so its WHERE clause is   *)
(* read as: OR of AND of (NOT* condition), in SQL's three truth values.     *)

Tok(a, n) == [atom |-> a, n |-> n]

\* the comparisons one piece of the WHERE clause consists of, each with the number
\* of its '?' placeholders
PieceTokens(piece) ==
    CASE piece \in {"AND", "OR", "NOT"} -> <<Tok(piece, 0)>>
      [] piece = "fts.full_name MATCH ?" -> <<Tok("name_match", 1)>>
      [] piece = "l.title = ?" -> <<Tok("title_eq", 1)>>
      [] piece = "l.title LIKE ?" -> <<Tok("title_like", 1)>>
      [] piece = "(e.school_name LIKE ? OR e.school_normalized LIKE ?)" ->
            <<Tok("school_like", 2)>>
      [] piece = "(e.school_name = ? OR e.school_normalized = ?)" -> <<Tok("school_eq", 2)>>
      [] piece = "e.year > ? AND e.is_law_degree = 1" ->
            <<Tok("year_gt", 1), Tok("AND", 0), Tok("is_law", 0)>>
      [] piece = "e.year < ? AND e.is_law_degree = 1" ->
            <<Tok("year_lt", 1), Tok("AND", 0), Tok("is_law", 0)>>
      [] piece = "e.year >= ? AND e.is_law_degree = 1" ->
            <<Tok("year_gte", 1), Tok("AND", 0), Tok("is_law", 0)>>
      [] piece = "e.year <= ? AND e.is_law_degree = 1" ->
            <<Tok("year_lte", 1), Tok("AND", 0), Tok("is_law", 0)>>
      [] piece = "e.year = ? AND e.is_law_degree = 1" ->
            <<Tok("year_eq", 1), Tok("AND", 0), Tok("is_law", 0)>>
      [] piece = "e.year > ?" -> <<Tok("year_gt", 1)>>
      [] piece = "e.year < ?" -> <<Tok("year_lt", 1)>>
      [] piece = "e.year >= ?" -> <<Tok("year_gte", 1)>>
      [] piece = "e.year <= ?" -> <<Tok("year_lte", 1)>>
      [] piece = "e.year = ?" -> <<Tok("year_eq", 1)>>
      [] piece = "p.practice_type = ?" -> <<Tok("practice_eq", 1)>>
      [] piece = "p.practice_type LIKE ?" -> <<Tok("practice_like", 1)>>
      [] piece = "ind.industry = ?" -> <<Tok("industry_eq", 1)>>
      [] piece = "ind.industry LIKE ?" -> <<Tok("industry_like", 1)>>
      [] piece = "r.region = ?" -> <<Tok("region_eq", 1)>>
      [] piece = "r.region LIKE ?" -> <<Tok("region_like", 1)>>
      [] piece = "LOWER(lang.language) = LOWER(?)" -> <<Tok("language_eq", 1)>>
      [] piece = "LOWER(lang.language) LIKE LOWER(?)" -> <<Tok("language_like", 1)>>
      [] OTHER -> <<Tok("unreadable", 0)>>

\* the table alias a comparison reads
TokAlias(a) ==
    CASE a = "name_match" -> "fts"
      [] a \in {"title_eq", "title_like"} -> "l"
      [] a \in {"school_like", "school_eq", "year_gt", "year_lt", "year_gte", "year_lte",
                "year_eq", "is_law"} -> "e"
      [] a \in {"practice_eq", "practice_like"} -> "p"
      [] a \in {"industry_eq", "industry_like"} -> "ind"
      [] a \in {"region_eq", "region_like"} -> "r"
      [] a \in {"language_eq", "language_like"} -> "lang"
      [] OTHER -> "l"

\* the pieces of the WHERE clause of the text
WhereParts(sql) ==
    IF \E i \in 1..Len(sql) : sql[i] = "WHERE"
    THEN LET w == CHOOSE i \in 1..Len(sql) : sql[i] = "WHERE"
             last == IF sql[Len(sql)] = "ORDER BY l.name" THEN Len(sql) - 1 ELSE Len(sql)
         IN  SubSeq(sql, w + 1, last)
    ELSE <<>>

HasPiece(sql, piece) == \E i \in 1..Len(sql) : sql[i] = piece

\* the table aliases the text makes available
Aliases(sql) ==
    {"l"}
    \cup (IF HasPiece(sql, "INNER JOIN lawyers_fts fts ON l.id = fts.rowid")
          THEN {"fts"} ELSE {})
    \cup (IF HasPiece(sql, "LEFT JOIN educations e ON l.id = e.lawyer_id")
          THEN {"e"} ELSE {})
    \cup (IF HasPiece(sql, "LEFT JOIN practices p ON l.id = p.lawyer_id")
          THEN {"p"} ELSE {})
    \cup (IF HasPiece(sql, "LEFT JOIN industries ind ON l.id = ind.lawyer_id")
          THEN {"ind"} ELSE {})
    \cup (IF HasPiece(sql, "LEFT JOIN regions r ON l.id = r.lawyer_id")
          THEN {"r"} ELSE {})
    \cup (IF HasPiece(sql, "LEFT JOIN languages lang ON l.id = lang.lawyer_id")
          THEN {"lang"} ELSE {})

RECURSIVE FlattenPieces(_)
FlattenPieces(pieces) ==
    IF pieces = <<>> THEN <<>> ELSE PieceTokens(Head(pieces)) \o FlattenPieces(Tail(pieces))

RECURSIVE CountParams(_)
CountParams(toks) == IF toks = <<>> THEN 0 ELSE Head(toks).n + CountParams(Tail(toks))

\* each comparison with the bound parameters its placeholders take, in text order
Bind(toks, params) ==
    [i \in 1..Len(toks) |->
        LET off == CountParams(SubSeq(toks, 1, i - 1))
        IN  [atom |-> toks[i].atom, args |-> SubSeq(params, off + 1, off + toks[i].n)]]

\* the runs of toks between the occurrences of the connective sep
RECURSIVE SplitAt(_, _, _)
SplitAt(toks, sep, run_) ==
    IF toks = <<>> THEN <<run_>>
    ELSE IF Head(toks).atom = sep THEN <<run_>> \o SplitAt(Tail(toks), sep, <<>>)
    ELSE SplitAt(Tail(toks), sep, Append(run_, Head(toks)))

\* NOT* comparison
IsFactor(f) ==
    /\ f # <<>>
    /\ f[Len(f)].atom \notin {"AND", "OR", "NOT", "unreadable"}
    /\ \A i \in 1..(Len(f) - 1) : f[i].atom = "NOT"

\* the clause parses as a boolean expression
WellFormedClause(toks) ==
    \A i \in 1..Len(SplitAt(toks, "OR", <<>>)) :
        LET conj == SplitAt(SplitAt(toks, "OR", <<>>)[i], "AND", <<>>)
        IN  \A j \in 1..Len(conj) : IsFactor(conj[j])

Not3(a) == CASE a = "T" -> "F" [] a = "F" -> "T" [] OTHER -> "N"
And3(a, b) == IF a = "F" \/ b = "F" THEN "F" ELSE IF a = "N" \/ b = "N" THEN "N" ELSE "T"
Or3(a, b) == IF a = "T" \/ b = "T" THEN "T" ELSE IF a = "N" \/ b = "N" THEN "N" ELSE "F"
Bool3(b) == IF b THEN "T" ELSE "F"

\* needle occurs in hay
IsSubstring(needle, hay) ==
    \E i \in 0..(Len(hay) - Len(needle)) : SubSeq(hay, i + 1, i + Len(needle)) = needle

\* text LIKE '%...%': the pattern without its two '%' occurs in text, letter case apart
Like(text, arg) ==
    /\ arg.kind = "str"
    /\ Len(arg.s) >= 2
    /\ IsSubstring(Lower(SubSeq(arg.s, 2, Len(arg.s) - 1)), Lower(text))

\* text = ?
Equals(text, arg) == arg.kind = "str" /\ arg.s = text

\* the words ws occur one after the other in hay
IsPhrase(ws, hay) ==
    \E i \in 0..(Len(hay) - Len(ws)) : SubSeq(hay, i + 1, i + Len(ws)) = ws

\* full_name MATCH ?: a quoted phrase, or words that must all occur, letter case apart
FtsMatch(full_name, arg) ==
    LET names == SplitWords(Lower(full_name), <<>>)
        q == Lower(arg.s)
        quoted == Len(q) >= 2 /\ q[1] = "\"" /\ q[Len(q)] = "\""
        ws == IF quoted THEN SplitWords(SubSeq(q, 2, Len(q) - 1), <<>>)
              ELSE SplitWords(q, <<>>)
    IN  /\ arg.kind = "str"
        /\ ws # <<>>
        /\ IF quoted THEN IsPhrase(ws, names)
           ELSE \A i \in 1..Len(ws) : \E j \in 1..Len(names) : names[j] = ws[i]

\* the rows a LEFT JOIN gives for the rows S of a sub-table: one all-NULL row if none
LeftJoin(S, blank) ==
    IF S = {} THEN {[null |-> TRUE, row |-> blank]}
    ELSE {[null |-> FALSE, row |-> x] : x \in S}

BlankEducation ==
    [school_name |-> <<>>, school_normalized |-> <<>>, year |-> 0, is_law_degree |-> 0]

\* the joined rows of one lawyer
JoinedRows(ent) ==
    [e : LeftJoin(ent.educations, BlankEducation),
     p : LeftJoin(ent.practices, <<>>),
     ind : LeftJoin(ent.industries, <<>>),
     r : LeftJoin(ent.regions, <<>>),
     lang : LeftJoin(ent.languages, <<>>)]

\* a comparison on a NULL column is NULL
OnRow(b, truth) == IF b.null THEN "N" ELSE Bool3(truth)

\* the truth value of one comparison on one joined row
TokValue(t, ent, jr) ==
    LET a == t.atom
        x == t.args
    IN  CASE a = "name_match" -> Bool3(FtsMatch(ent.name, x[1]))
          [] a = "title_eq" -> Bool3(Equals(ent.title, x[1]))
          [] a = "title_like" -> Bool3(Like(ent.title, x[1]))
          [] a = "school_like" ->
                OnRow(jr.e, Like(jr.e.row.school_name, x[1])
                            \/ Like(jr.e.row.school_normalized, x[2]))
          [] a = "school_eq" ->
                OnRow(jr.e, Equals(jr.e.row.school_name, x[1])
                            \/ Equals(jr.e.row.school_normalized, x[2]))
          [] a = "year_gt" -> OnRow(jr.e, x[1].kind = "int" /\ jr.e.row.year > x[1].n)
          [] a = "year_lt" -> OnRow(jr.e, x[1].kind = "int" /\ jr.e.row.year < x[1].n)
          [] a = "year_gte" -> OnRow(jr.e, x[1].kind = "int" /\ jr.e.row.year >= x[1].n)
          [] a = "year_lte" -> OnRow(jr.e, x[1].kind = "int" /\ jr.e.row.year <= x[1].n)
          [] a = "year_eq" -> OnRow(jr.e, x[1].kind = "int" /\ jr.e.row.year = x[1].n)
          [] a = "is_law" -> OnRow(jr.e, jr.e.row.is_law_degree = 1)
          [] a = "practice_eq" -> OnRow(jr.p, Equals(jr.p.row, x[1]))
          [] a = "practice_like" -> OnRow(jr.p, Like(jr.p.row, x[1]))
          [] a = "industry_eq" -> OnRow(jr.ind, Equals(jr.ind.row, x[1]))
          [] a = "industry_like" -> OnRow(jr.ind, Like(jr.ind.row, x[1]))
          [] a = "region_eq" -> OnRow(jr.r, Equals(jr.r.row, x[1]))
          [] a = "region_like" -> OnRow(jr.r, Like(jr.r.row, x[1]))
          [] a = "language_eq" ->
                OnRow(jr.lang, x[1].kind = "str" /\ Lower(jr.lang.row) = Lower(x[1].s))
          [] a = "language_like" ->
                OnRow(jr.lang, x[1].kind = "str" /\ Len(x[1].s) >= 2
                               /\ IsSubstring(Lower(SubSeq(x[1].s, 2, Len(x[1].s) - 1)),
                                              Lower(jr.lang.row)))
          [] OTHER -> "N"

\* NOT* comparison
RECURSIVE FactorValue(_, _, _)
FactorValue(f, ent, jr) ==
    IF Len(f) = 1 THEN TokValue(f[1], ent, jr)
    ELSE Not3(FactorValue(Tail(f), ent, jr))

RECURSIVE AndValue(_, _, _)
AndValue(conj, ent, jr) ==
    IF conj = <<>> THEN "T"
    ELSE And3(FactorValue(Head(conj), ent, jr), AndValue(Tail(conj), ent, jr))

RECURSIVE OrValue(_, _, _)
OrValue(disj, ent, jr) ==
    IF disj = <<>> THEN "F"
    ELSE Or3(AndValue(SplitAt(Head(disj), "AND", <<>>), ent, jr),
             OrValue(Tail(disj), ent, jr))

\* execute_query(conn, sql, params), for one stored lawyer: "yes" if the result has
\* the lawyer, "no" if not, "error" if the database rejects the statement
ExecuteQuery(sql, params, ent) ==
    LET toks == FlattenPieces(WhereParts(sql))
        bound == Bind(toks, params)
    IN  IF \/ ~WellFormedClause(toks) /\ toks # <<>>
           \/ CountParams(toks) # Len(params)
           \/ \E i \in 1..Len(toks) :
                 /\ toks[i].atom \notin {"AND", "OR", "NOT"}
                 /\ TokAlias(toks[i].atom) \notin Aliases(sql)
        THEN "error"
        ELSE IF toks = <<>> THEN "yes"
        ELSE IF \E jr \in JoinedRows(ent) :
                   OrValue(SplitAt(bound, "OR", <<>>), ent, jr) = "T"
        THEN "yes"
        ELSE "no"

----------------------------------------------------------------------------
(* The compiler and the database together: an AST is compiled, and the      *)
(* compiled query is run on one stored lawyer.                              *)

MaxAstLen == 3

Yale == <<"Y", "a", "l", "e">>
Harvard == <<"H", "a", "r", "v", "a", "r", "d">>
Tax == <<"T", "a", "x">>
Corp == <<"C", "o", "r", "p">>
Partner == <<"P", "a", "r", "t", "n", "e", "r">>
Associate == <<"A", "s", "s", "o", "c", "i", "a", "t", "e">>

\* the graduation-year predicates tried: every operator, every field name
YearKinds ==
    { <<"law_school_year", "gt">>, <<"undergrad_year", "lt">>, <<"graduated", "gte">>,
      <<"law_school_year", "lte">>, <<"graduated", "eq">> }

\* the nodes an AST is made of: the three connectives, predicates on the lawyer's own
\* row and on two sub-tables, one graduation-year predicate, and a predicate whose
\* operator its field does not support
NodeSet(yk) ==
    { Connective("AND"), Connective("OR"), Connective("NOT"),
      Predicate("title", "eq", StrV(Partner)),
      Predicate("practice", "eq", StrV(Tax)),
      Predicate("school", "contains", StrV(Lower(Yale))),
      Predicate(yk[1], yk[2], IntV(2010)),
      Predicate("practice", "gt", StrV(Tax)) }

EducationRows ==
    { [school_name |-> Yale, school_normalized |-> Yale, year |-> 2015,
       is_law_degree |-> 0],
      [school_name |-> Yale, school_normalized |-> Yale, year |-> 2005,
       is_law_degree |-> 0],
      [school_name |-> Harvard, school_normalized |-> Harvard, year |-> 2015,
       is_law_degree |-> 1],
      [school_name |-> Harvard, school_normalized |-> Harvard, year |-> 2005,
       is_law_degree |-> 1] }

\* the stored lawyers: up to two education rows, no or two practice rows
Entities ==
    [name : {<<"A", " ", "B">>},
     title : {Partner, Associate},
     educations : {S \in SUBSET EducationRows : Cardinality(S) <= 2},
     practices : {{}, {Tax, Corp}},
     industries : {{}},
     regions : {{}},
     languages : {{}}]

CompileInit ==
    /\ CacheInit
    /\ thr = NoThreads
    /\ ClsIdle
    /\ PipeIdle
    /\ \E yk \in YearKinds :
          ast \in UNION { [1..n -> NodeSet(yk)] : n \in 0..MaxAstLen }
    /\ out = <<>>
    /\ entity = <<>>
    /\ selected = "idle"
    /\ stage = "parsed"

\* sql, params = compile_ast_to_sql(ast, conn)
Compile ==
    /\ stage = "parsed"
    /\ out' = CompileAstToSql(ast)
    /\ ast' = AstAfter(ast)
    /\ stage' = "compiled"
    /\ UNCHANGED <<entity, selected, cacheSide, clsSide, pipeSide>>

\* results = execute_query(conn, sql, params), seen from one stored lawyer
Execute(ent) ==
    /\ stage = "compiled"
    /\ entity' = ent
    /\ selected' = ExecuteQuery(out.sql, out.params, ent)
    /\ stage' = "executed"
    /\ UNCHANGED <<ast, out, cacheSide, clsSide, pipeSide>>

CmpNext ==
    \/ Compile
    \/ \E ent \in Entities : Execute(ent)

SpecCompile == CompileInit /\ [][CmpNext]_vars

----------------------------------------------------------------------------
(* What the predicates mean, stated on the stored lawyer and not on the     *)
(* compiled text.                                                           *)

\* the node is a predicate that produces a condition
Produces(node) ==
    ~IsConnective(node) /\ node.field # "" /\ node.op # "" /\ Condition(node) # ""

Compare(o, a, b) ==
    CASE o = "gt" -> a > b
      [] o = "lt" -> a < b
      [] o = "gte" -> a >= b
      [] o = "lte" -> a <= b
      [] o = "eq" -> a = b
      [] OTHER -> FALSE

Contains(text, part) == IsSubstring(Lower(part), Lower(text))

TextHolds(o, text, v) ==
    IF o = "eq" THEN v.kind = "str" /\ text = v.s ELSE Contains(text, Str(v))

\* some education row marked as the law degree has a year that satisfies the comparison
LawYearHolds(o, v, ent) ==
    \E row \in ent.educations :
        row.is_law_degree = 1 /\ v.kind = "int" /\ Compare(o, row.year, v.n)

\* the predicate is true of the lawyer: some row of the lawyer satisfies it
PredicateHolds(node, ent) ==
    LET f == node.field
        o == node.op
        v == node.value
    IN  CASE f = "name" -> FtsMatch(ent.name, NodeParams(node)[1])
          [] f = "title" -> TextHolds(o, ent.title, v)
          [] f = "school" ->
                \E row \in ent.educations :
                    \/ TextHolds(o, row.school_name, v)
                    \/ TextHolds(o, row.school_normalized,
                                 StrV(GetSchoolNormalized(Str(v))))
          [] f \in YearFields -> LawYearHolds(o, v, ent)
          [] f = "practice" -> \E x \in ent.practices : TextHolds(o, x, v)
          [] f = "industry" -> \E x \in ent.industries : TextHolds(o, x, v)
          [] f = "region" -> \E x \in ent.regions : TextHolds(o, x, v)
          [] f = "language" ->
                \E x \in ent.languages : TextHolds(o, Lower(x), StrV(Lower(Str(v))))
          [] OTHER -> FALSE

\* N predicates that produce conditions, joined by N-1 connectives AND / OR
IsJoinedSequence(nodes) ==
    /\ Len(nodes) % 2 = 1
    /\ \A i \in 1..Len(nodes) :
          IF i % 2 = 1 THEN Produces(nodes[i]) ELSE nodes[i].op \in {"AND", "OR"}

\* the indices of nodes between the OR nodes
RECURSIVE OrGroups(_, _, _)
OrGroups(nodes, i, group) ==
    IF i > Len(nodes) THEN {group}
    ELSE IF nodes[i].op = "OR" THEN {group} \cup OrGroups(nodes, i + 1, {})
    ELSE OrGroups(nodes, i + 1, group \cup {i})

\* the standard meaning of a joined sequence: AND binds tighter than OR
Meaning(nodes, ent) ==
    \E group \in OrGroups(nodes, 1, {}) :
        \A i \in group : Produces(nodes[i]) => PredicateHolds(nodes[i], ent)

\* C8: for a sequence of N predicates joined by N-1 connectives, the compiled query
\* selects the lawyer exactly when the lawyer satisfies the standard combination of
\* the predicates, each predicate being true when some row of the lawyer satisfies it.
C8_SelectsBooleanMeaning ==
    (stage = "executed" /\ IsJoinedSequence(ast))
        => ((selected = "yes") <=> Meaning(ast, entity))

\* the last node before i that put something into the clause, 0 if there is none
PrevEmitting(nodes, i) ==
    IF \E j \in 1..(i - 1) : IsConnective(nodes[j]) \/ Produces(nodes[j])
    THEN CHOOSE j \in 1..(i - 1) :
            /\ IsConnective(nodes[j]) \/ Produces(nodes[j])
            /\ \A k \in (j + 1)..(i - 1) : ~(IsConnective(nodes[k]) \/ Produces(nodes[k]))
    ELSE 0

\* what node i puts into the clause: a connective itself; a condition, after one AND
\* exactly when what precedes it in the clause is a condition and not a connective
ExpectedPieces(nodes, i) ==
    IF IsConnective(nodes[i]) THEN <<nodes[i].op>>
    ELSE IF ~Produces(nodes[i]) THEN <<>>
    ELSE (IF PrevEmitting(nodes, i) # 0 /\ Produces(nodes[PrevEmitting(nodes, i)])
          THEN <<"AND">> ELSE <<>>) \o <<Condition(nodes[i])>>

RECURSIVE ExpectedWhere(_, _)
ExpectedWhere(nodes, i) ==
    IF i > Len(nodes) THEN <<>>
    ELSE ExpectedPieces(nodes, i) \o ExpectedWhere(nodes, i + 1)

\* C9: two adjacent predicate nodes that each produce a condition get exactly one AND
\* between their conditions, and a condition that follows an explicit connective gets
\* none: the clause is the nodes' pieces in order with those ANDs and no others.
C9_ImplicitAnd ==
    stage \in {"compiled", "executed"} => WhereParts(out.sql) = ExpectedWhere(ast, 1)

\* an AST with two adjacent condition-producing predicates, and with a condition
\* that follows an explicit connective, has been compiled
C9_Witness ==
    /\ stage = "compiled"
    /\ Len(ast) = MaxAstLen
    /\ \E i \in 1..(Len(ast) - 1) : Produces(ast[i]) /\ Produces(ast[i + 1])
    /\ \E i \in 1..(Len(ast) - 1) : IsConnective(ast[i]) /\ Produces(ast[i + 1])
    /\ \E i \in 1..(Len(out.sql) - 2) :
          /\ out.sql[i] \notin {"AND", "OR", "NOT", "WHERE"}
          /\ out.sql[i + 1] = "AND"
          /\ out.sql[i + 2] \notin {"AND", "OR", "NOT"}

\* the AST is one graduation-year predicate
IsYearQuery(nodes) == Len(nodes) = 1 /\ Produces(nodes[1]) /\ nodes[1].field \in YearFields

\* the two lawyers differ at most in the years of rows not marked as the law degree
SameButOtherYears(a, b) ==
    /\ [a EXCEPT !.educations = {}] = [b EXCEPT !.educations = {}]
    /\ {row \in a.educations : row.is_law_degree = 1}
          = {row \in b.educations : row.is_law_degree = 1}
    /\ {[row EXCEPT !.year = 0] : row \in a.educations}
          = {[row EXCEPT !.year = 0] : row \in b.educations}

\* C10: a graduation-year predicate selects the lawyer exactly when some education
\* row marked as the law degree has a year that satisfies the comparison; and in any
\* query, the year of a row not marked as the law degree never changes the outcome.
C10_YearOnlyThroughLawDegree ==
    stage = "executed" =>
        /\ IsYearQuery(ast) =>
              ((selected = "yes") <=> LawYearHolds(ast[1].op, ast[1].value, entity))
        /\ \A other \in Entities :
              SameButOtherYears(entity, other)
                  => ExecuteQuery(out.sql, out.params, other) = selected

\* a graduation-year query has run on a lawyer who has a non-law row whose year
\* satisfies the comparison and a law row whose year does not: not selected
C10_Witness ==
    /\ stage = "executed"
    /\ IsYearQuery(ast)
    /\ \E row \in entity.educations :
          row.is_law_degree = 0 /\ Compare(ast[1].op, row.year, ast[1].value.n)
    /\ \E row \in entity.educations :
          row.is_law_degree = 1 /\ ~Compare(ast[1].op, row.year, ast[1].value.n)
    /\ selected = "no"

\* the JOIN clauses a text can have
JoinPieces ==
    { "INNER JOIN lawyers_fts fts ON l.id = fts.rowid",
      "LEFT JOIN educations e ON l.id = e.lawyer_id",
      "LEFT JOIN practices p ON l.id = p.lawyer_id",
      "LEFT JOIN industries ind ON l.id = ind.lawyer_id",
      "LEFT JOIN regions r ON l.id = r.lawyer_id",
      "LEFT JOIN languages lang ON l.id = lang.lawyer_id" }

\* the number of times piece occurs in the text
Occurrences(sql, piece) == Cardinality({i \in 1..Len(sql) : sql[i] = piece})

\* the table aliases the conditions of the WHERE clause read
UsedAliases(sql) ==
    LET toks == FlattenPieces(WhereParts(sql))
    IN  { TokAlias(toks[i].atom) :
            i \in {j \in 1..Len(toks) : toks[j].atom \notin {"AND", "OR", "NOT"}} }

\* C11: the compiled query joins each sub-table at most once, and joins a sub-table
\* only if a condition of the query reads it.
C11_JoinsOnlyUsedTables ==
    stage \in {"compiled", "executed"} =>
        /\ \A i \in 1..Len(out.sql) :
              out.sql[i] \in JoinPieces => Occurrences(out.sql, out.sql[i]) = 1
        /\ Aliases(out.sql) \ {"l"} \subseteq UsedAliases(out.sql)

\* the compiled text has been returned
Compiled == stage \in {"compiled", "executed"}

\* C12: for every predicate sequence, the empty one included, the compiled text
\* selects DISTINCT lawyers and orders them by display name.
C12_DistinctAndOrdered ==
    Compiled =>
        /\ out.sql[1] = "SELECT DISTINCT l.id, l.name, l.url FROM lawyers l"
        /\ out.sql[Len(out.sql)] = "ORDER BY l.name"

\* the values a predicate may carry, one of them with quote and statement characters
ValueSet == { StrV(Tax), StrV(<<"'", ";", "-", "-">>), IntV(1999) }

\* the same fields, operators and connectives, with the values vals
Revalue(nodes, vals) ==
    [i \in 1..Len(nodes) |->
        IF IsConnective(nodes[i]) THEN nodes[i] ELSE [nodes[i] EXCEPT !.value = vals[i]]]

\* C13: the compiled text does not depend on the predicates' values: every sequence
\* with the same fields, operators and connectives compiles to the same text.
C13_TextIndependentOfValues ==
    stage = "compiled" =>
        \A vals \in [1..Len(ast) -> ValueSet] :
            CompileAstToSql(Revalue(ast, vals)).sql = out.sql

\* a sequence with a condition-producing predicate has been compiled, and another
\* choice of values gives the same text with other bound parameters
C13_Witness ==
    /\ stage = "compiled"
    /\ out.params # <<>>
    /\ \E vals \in [1..Len(ast) -> ValueSet] :
          /\ CompileAstToSql(Revalue(ast, vals)).params # out.params
          /\ CompileAstToSql(Revalue(ast, vals)).sql = out.sql

\* the node is a predicate that produces no condition
IsDropped(node) == ~IsConnective(node) /\ ~Produces(node)

RemoveAt(nodes, i) == SubSeq(nodes, 1, i - 1) \o SubSeq(nodes, i + 1, Len(nodes))

\* C14: a predicate node with an unknown field or an unsupported operator is dropped:
\* the compiled text and parameters are those of the sequence without that node.
C14_DroppedNodeLeavesNoTrace ==
    Compiled =>
        \A i \in 1..Len(ast) :
            IsDropped(ast[i]) => CompileAstToSql(RemoveAt(ast, i)) = out

----------------------------------------------------------------------------
(* semantic_search: the retrieval of candidates from the vector store.      *)
(* An embedding is a vector of two small integers; the empty sequence is a  *)
(* row whose embedding blob is NULL or empty.                               *)

MaxRows == 3
MaxK == 2

\* the ids of table lawyers; an embedding row may name a lawyer that is not there
LawyerIds == {1, 2}
OrphanId == 9

Dot(a, b) == a[1] * b[1] + a[2] * b[2]

\* cosine_similarity(a, b): 0.0 if a norm is 0, else dot / (norm_a * norm_b).  The
\* float is held as sign * 4 * cos^2, an integer for the vectors used and in the
\* same order as the cosine.
CosineSimilarity(a, b) ==
    IF Dot(a, a) = 0 \/ Dot(b, b) = 0 THEN 0
    ELSE LET sq == (4 * Dot(a, b) * Dot(a, b)) \div (Dot(a, a) * Dot(b, b))
         IN  IF Dot(a, b) < 0 THEN 0 - sq ELSE sq

\* lines 96-115: one (lawyer_id, similarity) per row that joins a lawyer and has a blob
RECURSIVE Similarities(_, _)
Similarities(rows, query_embedding) ==
    IF rows = <<>> THEN <<>>
    ELSE (IF Head(rows).lawyer_id \in LawyerIds /\ Head(rows).embedding # <<>>
          THEN <<[lawyer_id |-> Head(rows).lawyer_id,
                  similarity |-> CosineSimilarity(query_embedding, Head(rows).embedding)]>>
          ELSE <<>>)
         \o Similarities(Tail(rows), query_embedding)

\* x put behind the last element of sorted whose similarity is not smaller
InsertDesc(sorted, x) ==
    LET n == Cardinality({i \in 1..Len(sorted) : sorted[i].similarity >= x.similarity})
    IN  SubSeq(sorted, 1, n) \o <<x>> \o SubSeq(sorted, n + 1, Len(sorted))

\* mutant of SortDesc: the list is left in row order
SortDesc_Unsorted(results) == results

\* results.sort(key=lambda x: x[1], reverse=True): stable, largest first
RECURSIVE SortDesc(_)
SortDesc(results) ==
    IF results = <<>> THEN <<>>
    ELSE InsertDesc(SortDesc(SubSeq(results, 1, Len(results) - 1)), results[Len(results)])

\* results[:k]
Slice(results, k) ==
    IF k >= 0 THEN SubSeq(results, 1, IF k < Len(results) THEN k ELSE Len(results))
    ELSE SubSeq(results, 1, IF Len(results) + k > 0 THEN Len(results) + k ELSE 0)

Returned(f, v, calls) ==
    [fn |-> f, kind |-> "return", value |-> v, error |-> "", provider_calls |-> calls]
RaisedError(f, e, calls) ==
    [fn |-> f, kind |-> "raise", value |-> <<>>, error |-> e, provider_calls |-> calls]

\* mutant of CountIsZero: the store is never found empty
CountIsZero_Never(rows) == FALSE

\* line 84: embedding_count == 0
CountIsZero(rows) == Len(rows) = 0

\* semantic_search(query, k, db_path); answer is what get_embedding does for the
\* query: it returns a vector or raises
SemanticSearch(rows, answer, k) ==
    IF CountIsZero(rows) THEN RaisedError("semantic_search", "ValueError", 0)
    ELSE IF ~answer.ok THEN RaisedError("semantic_search", "ProviderError", 1)
    ELSE Returned("semantic_search", Slice(SortDesc(Similarities(rows, answer.vec)), k), 1)

\* the embeddings a row can hold
Embeddings == { <<>>, <<1, 0>>, <<1, 1>> }

\* what the embedding provider does for a query
ProviderAnswers ==
    { [ok |-> FALSE, vec |-> <<>>] }
    \cup { [ok |-> TRUE, vec |-> v] : v \in { <<1, 0>>, <<0, 1>>, <<0, 0>>, <<-1, -1>> } }

PlainText == <<"l", "a", "w">>

StoreRows ==
    [lawyer_id : LawyerIds \cup {OrphanId}, embedding : Embeddings, text : {PlainText}]

SemanticInit ==
    /\ CacheInit
    /\ thr = NoThreads
    /\ ClsIdle
    /\ CmpIdle
    /\ store \in UNION { [1..n -> StoreRows] : n \in 0..MaxRows }
    /\ request = NoCall
    /\ reply = NoCall

\* candidates = semantic_search(query, k=k, db_path=db_path)
CallSemanticSearch(answer, k) ==
    /\ request = NoCall
    /\ request' = [fn |-> "semantic_search", answer |-> answer, k |-> k]
    /\ reply' = SemanticSearch(store, answer, k)
    /\ UNCHANGED <<store, cacheSide, clsSide, cmpSide>>

SemanticNext == \E answer \in ProviderAnswers, k \in (0 - 1)..MaxK : CallSemanticSearch(answer, k)

SpecSemantic == SemanticInit /\ [][SemanticNext]_vars

SemanticDone == request.fn = "semantic_search"

\* C16: semantic_search raises the 'no embeddings' error exactly when the store has
\* no row, and then without a call of the embedding provider; with rows of which
\* none yields a candidate (and a provider that answers) it returns the empty list.
C16_EmptyStoreRaises ==
    SemanticDone =>
        /\ (reply.kind = "raise" /\ reply.error = "ValueError") <=> (Len(store) = 0)
        /\ Len(store) = 0 => reply.provider_calls = 0
        /\ (/\ Len(store) > 0
            /\ request.answer.ok
            /\ \A i \in 1..Len(store) :
                  store[i].lawyer_id \notin LawyerIds \/ store[i].embedding = <<>>)
              => (reply.kind = "return" /\ reply.value = <<>>)

\* the search ran on a store whose rows all lack a blob or a lawyer, with k > 0
C16_Witness ==
    /\ SemanticDone
    /\ Len(store) = MaxRows
    /\ request.k > 0
    /\ request.answer.ok
    /\ \E i \in 1..Len(store) : store[i].embedding = <<>>
    /\ \E i \in 1..Len(store) : store[i].lawyer_id \notin LawyerIds
    /\ reply.kind = "return" /\ reply.value = <<>>

\* the rows that have a similarity: the lawyer exists and the blob is not empty
Scored(rows) ==
    {i \in 1..Len(rows) : rows[i].lawyer_id \in LawyerIds /\ rows[i].embedding # <<>>}

\* C18: for k >= 0 and a non-empty store, semantic_search returns at most k
\* candidates, in non-increasing order of similarity, each a scored row of the store,
\* and no more scored rows are left out than those that do not fit into k, none of
\* them with a similarity above that of a returned candidate.
C18_TopKBySimilarity ==
    (SemanticDone /\ reply.kind = "return" /\ request.k >= 0) =>
        LET res == reply.value
            q == request.answer.vec
            sims == [i \in Scored(store) |-> CosineSimilarity(q, store[i].embedding)]
        IN  /\ Len(res) <= request.k
            /\ \A i \in 1..(Len(res) - 1) : res[i].similarity >= res[i + 1].similarity
            /\ \E pick \in [1..Len(res) -> Scored(store)] :
                  /\ \A i, j \in 1..Len(res) : i # j => pick[i] # pick[j]
                  /\ \A i \in 1..Len(res) :
                        /\ res[i].lawyer_id = store[pick[i]].lawyer_id
                        /\ res[i].similarity = sims[pick[i]]
                  /\ \A r \in Scored(store) \ {pick[i] : i \in 1..Len(res)} :
                        /\ Len(res) = request.k
                        /\ \A i \in 1..Len(res) : sims[r] <= res[i].similarity

\* a search with k below the number of scored rows, whose similarities differ and
\* are not in row order
C18_Witness ==
    /\ SemanticDone /\ reply.kind = "return"
    /\ request.k > 0
    /\ Len(reply.value) = request.k
    /\ Cardinality(Scored(store)) > request.k
    /\ \E i, j \in Scored(store) :
          /\ i < j
          /\ CosineSimilarity(request.answer.vec, store[i].embedding)
                < CosineSimilarity(request.answer.vec, store[j].embedding)

----------------------------------------------------------------------------
(* keyword_filter: the keyword pre-filter of the candidates.  Queries and   *)
(* cached texts are words of letters separated by single spaces.            *)

MaxCands == 21

\* line 22: names of the first company pattern; the other patterns work the same way
CompanyNames == { <<"c", "n", "n">>, <<"n", "b", "c">>, <<"h", "b", "o">> }

\* lines 30-38: some of the industry keywords
IndustryKeywords ==
    { <<"t", "v">>, <<"m", "e", "d", "i", "a">>, <<"t", "e", "c", "h">>,
      <<"t", "e", "c", "h", "n", "o", "l", "o", "g", "y">>,
      <<"m", "e", "r", "g", "e", "r">> }

IsLowerLetter(c) ==
    c \in {"a", "b", "c", "d", "e", "f", "g", "h", "i", "j", "k", "l", "m", "n", "o", "p",
           "q", "r", "s", "t", "u", "v", "w", "x", "y", "z"}
IsUpperLetter(c) == LowerChar(c) # c

\* [A-Z][a-z]+ between word boundaries
IsCapWord(w) ==
    /\ Len(w) >= 2
    /\ IsUpperLetter(w[1])
    /\ \A i \in 2..Len(w) : IsLowerLetter(w[i])

\* line 56: re.findall(r'"([^"]+)"', query), lowered and stripped, scanning from i
RECURSIVE QuotedPhrases(_, _)
QuotedPhrases(q, i) ==
    IF i > Len(q) THEN {}
    ELSE IF q[i] # "\"" THEN QuotedPhrases(q, i + 1)
    ELSE IF ~\E j \in (i + 1)..Len(q) : q[j] = "\"" THEN {}
    ELSE LET j == CHOOSE j \in (i + 1)..Len(q) :
                      q[j] = "\"" /\ \A m \in (i + 1)..(j - 1) : q[m] # "\""
         IN  IF j = i + 1 THEN QuotedPhrases(q, i + 1)
             ELSE {Strip(Lower(SubSeq(q, i + 1, j - 1)))} \cup QuotedPhrases(q, j + 1)

\* line 61: the runs of two or more capitalized words, lowered, scanning from word i
RECURSIVE CapitalizedEntities(_, _)
CapitalizedEntities(ws, i) ==
    IF i > Len(ws) THEN {}
    ELSE IF ~IsCapWord(ws[i]) THEN CapitalizedEntities(ws, i + 1)
    ELSE LET j == CHOOSE j \in i..Len(ws) :
                      /\ \A m \in i..j : IsCapWord(ws[m])
                      /\ j = Len(ws) \/ ~IsCapWord(ws[j + 1])
         IN  IF j = i THEN CapitalizedEntities(ws, i + 1)
             ELSE {Lower(JoinWords(SubSeq(ws, i, j)))} \cup CapitalizedEntities(ws, j + 1)

\* extract_keywords(query)
ExtractKeywords(q) ==
    LET ws == SplitWords(q, <<>>)
    IN  {Lower(ws[i]) : i \in {j \in 1..Len(ws) : Lower(ws[j]) \in CompanyNames}}
        \cup {kw \in IndustryKeywords : IsSubstring(kw, Lower(q))}
        \cup QuotedPhrases(q, 1)
        \cup CapitalizedEntities(ws, 1)

\* cursor.fetchone() for lawyer_id: the first row of the lawyer, <<>> if there is none
RowsOf(rows, lawyer_id) == {i \in 1..Len(rows) : rows[i].lawyer_id = lawyer_id}
FirstRow(rows, lawyer_id) ==
    rows[CHOOSE i \in RowsOf(rows, lawyer_id) : \A j \in RowsOf(rows, lawyer_id) : i <= j]

\* line 113: the number of keywords the lowered text contains
KeywordMatches(text, keywords) ==
    Cardinality({kw \in keywords : IsSubstring(kw, Lower(text))})

\* lines 102-122: whether the loop keeps the candidate
KeepsCandidate(rows, lawyer_id, keywords, min_keyword_matches) ==
    IF RowsOf(rows, lawyer_id) = {} THEN TRUE
    ELSE LET matches == KeywordMatches(FirstRow(rows, lawyer_id).text, keywords)
         IN  IF min_keyword_matches = 0 THEN matches > 0 \/ keywords = {}
             ELSE matches >= min_keyword_matches

\* mutant of FilterLoop: the kept candidates come out last first
RECURSIVE FilterLoop_Reversed(_, _, _, _)
FilterLoop_Reversed(candidate_ids, rows, keywords, min_keyword_matches) ==
    IF candidate_ids = <<>> THEN <<>>
    ELSE FilterLoop_Reversed(Tail(candidate_ids), rows, keywords, min_keyword_matches)
         \o (IF KeepsCandidate(rows, Head(candidate_ids), keywords, min_keyword_matches)
             THEN <<Head(candidate_ids)>> ELSE <<>>)

\* lines 92-122: the loop over the candidates
RECURSIVE FilterLoop(_, _, _, _)
FilterLoop(candidate_ids, rows, keywords, min_keyword_matches) ==
    IF candidate_ids = <<>> THEN <<>>
    ELSE (IF KeepsCandidate(rows, Head(candidate_ids), keywords, min_keyword_matches)
          THEN <<Head(candidate_ids)>> ELSE <<>>)
         \o FilterLoop(Tail(candidate_ids), rows, keywords, min_keyword_matches)

\* keyword_filter_candidates(candidate_ids, query, db_path, min_keyword_matches)
KeywordFilterCandidates(candidate_ids, q, rows, min_keyword_matches) ==
    IF ExtractKeywords(q) = {} THEN candidate_ids
    ELSE FilterLoop(candidate_ids, rows, ExtractKeywords(q), min_keyword_matches)

\* mutant of Filtered: the threshold of 2 is never relaxed
Filtered_NoRelax(candidate_ids, q, rows) ==
    LET n == Cardinality(ExtractKeywords(q))
    IN  IF n >= 3 THEN KeywordFilterCandidates(candidate_ids, q, rows, 2)
        ELSE IF n >= 1 THEN KeywordFilterCandidates(candidate_ids, q, rows, 1)
        ELSE candidate_ids

\* lines 142-156: filtered, before the fallback
Filtered(candidate_ids, q, rows) ==
    LET n == Cardinality(ExtractKeywords(q))
    IN  IF n >= 3
        THEN IF Len(KeywordFilterCandidates(candidate_ids, q, rows, 2)) < 5
             THEN KeywordFilterCandidates(candidate_ids, q, rows, 1)
             ELSE KeywordFilterCandidates(candidate_ids, q, rows, 2)
        ELSE IF n >= 1 THEN KeywordFilterCandidates(candidate_ids, q, rows, 1)
        ELSE candidate_ids

\* mutant of Fallback: no fallback
Fallback_None(candidate_ids, filtered) == filtered

\* lines 160-164
Fallback(candidate_ids, filtered) ==
    IF Len(filtered) = 0 /\ Len(candidate_ids) > 0 THEN Slice(candidate_ids, 20)
    ELSE filtered

\* smart_filter_candidates(candidate_ids, query, db_path)
SmartFilterCandidates(candidate_ids, q, rows) ==
    Fallback(candidate_ids, Filtered(candidate_ids, q, rows))

\* the cached texts: without keyword, with one, with three
Texts ==
    { PlainText,
      <<"m", "e", "r", "g", "e", "r">>,
      <<"C", "N", "N", " ", "t", "e", "c", "h", " ", "m", "e", "r", "g", "e", "r">> }

\* the queries: 0, 1, 2 and 3 keywords
FilterQueries ==
    { PlainText,
      <<"m", "e", "r", "g", "e", "r">>,
      <<"t", "e", "c", "h", "n", "o", "l", "o", "g", "y">>,
      <<"c", "n", "n", " ", "t", "e", "c", "h", " ", "m", "e", "r", "g", "e", "r">> }

\* the stores: rows for the lawyers 1..n in order, all with one text but for one lawyer
FilterStores ==
    { [i \in 1..n |-> [lawyer_id |-> i, embedding |-> <<1, 0>>,
                       text |-> IF i = a THEN special ELSE usual]] :
        n \in 0..MaxCands, a \in 0..MaxCands, special \in Texts, usual \in Texts }

\* the candidate lists for a store: its lawyers in order, or last first, or every
\* second of them followed by a lawyer without a row
CandidateLists(rows) ==
    { [i \in 1..Len(rows) |-> i],
      [i \in 1..Len(rows) |-> Len(rows) + 1 - i],
      [i \in 1..((Len(rows) + 1) \div 2) |-> 2 * i] }

FilterInit ==
    /\ CacheInit
    /\ thr = NoThreads
    /\ ClsIdle
    /\ CmpIdle
    /\ store \in FilterStores
    /\ request = NoCall
    /\ reply = NoCall

\* filtered_ids = smart_filter_candidates(candidate_ids, query, db_path)
CallSmartFilter(candidate_ids, q) ==
    /\ request = NoCall
    /\ request' = [fn |-> "smart_filter_candidates", candidate_ids |-> candidate_ids,
                   query |-> q]
    /\ reply' = Returned("smart_filter_candidates",
                         SmartFilterCandidates(candidate_ids, q, store), 0)
    /\ UNCHANGED <<store, cacheSide, clsSide, cmpSide>>

FilterNext ==
    \E candidate_ids \in CandidateLists(store), q \in FilterQueries :
        CallSmartFilter(candidate_ids, q)

SpecFilter == FilterInit /\ [][FilterNext]_vars

FilterDone == request.fn = "smart_filter_candidates"

\* sub is a subsequence of seq: some increasing choice of positions of seq gives sub
RECURSIVE IsSubsequence(_, _)
IsSubsequence(sub, seq) ==
    IF sub = <<>> THEN TRUE
    ELSE IF seq = <<>> THEN FALSE
    ELSE IF Head(sub) = Head(seq) THEN IsSubsequence(Tail(sub), Tail(seq))
    ELSE IsSubsequence(sub, Tail(seq))

\* C19: the list smart_filter_candidates returns is a subsequence of its input: only
\* input candidates, in input order, never more than the input has.
C19_ResultIsSubsequence ==
    FilterDone =>
        /\ IsSubsequence(reply.value, request.candidate_ids)
        /\ Len(reply.value) <= Len(request.candidate_ids)

\* a call that kept some candidates and removed others from a list not in id order
C19_Witness ==
    /\ FilterDone
    /\ Len(request.candidate_ids) >= 2
    /\ request.candidate_ids[1] > request.candidate_ids[2]
    /\ reply.value # <<>>
    /\ Len(reply.value) < Len(request.candidate_ids)
    /\ ExtractKeywords(request.query) # {}

\* no candidate meets the threshold that applies to the query
NoneMeetsThreshold ==
    LET keywords == ExtractKeywords(request.query)
        ids == request.candidate_ids
        meets(m) == {i \in 1..Len(ids) : KeepsCandidate(store, ids[i], keywords, m)}
    IN  /\ keywords # {}
        /\ IF Cardinality(keywords) >= 3 /\ Cardinality(meets(2)) >= 5
           THEN FALSE ELSE meets(1) = {}

----------------------------------------------------------------------------
(* main: one resolution of a query, from the cache lookup to the return.    *)

\* table lawyers and its sub-tables; the names ascend with the ids
DbLawyers ==
    <<[name |-> <<"A", " ", "B">>, title |-> Partner, educations |-> {},
       practices |-> {Tax, Corp}, industries |-> {}, regions |-> {}, languages |-> {}],
      [name |-> <<"C", " ", "B">>, title |-> Associate, educations |-> {},
       practices |-> {}, industries |-> {}, regions |-> {}, languages |-> {}]>>

DbPath == <<"d">>

\* the numbers of S, smallest first
RECURSIVE Ascending(_)
Ascending(S) ==
    IF S = {} THEN <<>>
    ELSE LET m == CHOOSE x \in S : \A y \in S : x <= y
         IN  <<m>> \o Ascending(S \ {m})

\* execute_query(conn, sql, params) on the database: the ids of the result rows, or
\* the database's refusal of the statement
ExecuteOnDb(compiled) ==
    IF \E i \in 1..Len(DbLawyers) :
          ExecuteQuery(compiled.sql, compiled.params, DbLawyers[i]) = "error"
    THEN RaisedError("main", "OperationalError", 0)
    ELSE Returned("main",
                  Ascending({i \in 1..Len(DbLawyers) :
                      ExecuteQuery(compiled.sql, compiled.params, DbLawyers[i]) = "yes"}),
                  0)

\* lines 186-194: k by the number of keywords
AdaptiveK(q) ==
    IF Cardinality(ExtractKeywords(q)) >= 3 THEN 30
    ELSE IF Cardinality(ExtractKeywords(q)) >= 1 THEN 40
    ELSE 50

\* [lawyer_id for lawyer_id, score in candidates]
CandidateIds(candidates) == [i \in 1..Len(candidates) |-> candidates[i].lawyer_id]

\* parallel_llm_filter(filtered_ids, query): the candidates the judge passes, in the
\* order submitted; passing is the set of lawyers the judge says Pass for
ParallelLlmFilter(filtered_ids, passing) ==
    LET kept == Ascending({i \in 1..Len(filtered_ids) :
                    filtered_ids[i] \in LawyerIds /\ filtered_ids[i] \in passing})
    IN  [j \in 1..Len(kept) |-> filtered_ids[kept[j]]]

\* mutant of SimplePath: the empty result of line 145 is cached as well
SimplePath_CachesEmpty(ast_) ==
    IF ast_ = <<>> THEN [out |-> Returned("main", <<>>, 0), caches |-> TRUE]
    ELSE [out |-> ExecuteOnDb(CompileAstToSql(ast_)),
          caches |-> ExecuteOnDb(CompileAstToSql(ast_)).kind = "return"]

\* lines 137-172: the simple path, after the cache miss: what main returns or raises,
\* and whether it reaches the cache write
SimplePath(ast_) ==
    IF ast_ = <<>> THEN [out |-> Returned("main", <<>>, 0), caches |-> FALSE]
    ELSE LET r == ExecuteOnDb(CompileAstToSql(ast_))
         IN  [out |-> r, caches |-> r.kind = "return"]

\* lines 175-246: the complex path, after the cache miss
ComplexPath(q, rows, answer, passing) ==
    LET found == SemanticSearch(rows, answer, AdaptiveK(q))
    IN  IF found.kind = "raise"
        THEN [out |-> Returned("main", <<>>, found.provider_calls), caches |-> FALSE]
        ELSE IF found.value = <<>>
        THEN [out |-> Returned("main", <<>>, found.provider_calls), caches |-> FALSE]
        ELSE [out |-> Returned("main",
                               ParallelLlmFilter(
                                   SmartFilterCandidates(CandidateIds(found.value), q, rows),
                                   passing),
                               found.provider_calls),
              caches |-> TRUE]

MainQueries == { PlainText, <<"m", "e", "r", "g", "e", "r">> }

\* what parse_simple_query can give: nothing, one predicate, a lone connective
MainAsts ==
    { <<>>, <<Predicate("title", "eq", StrV(Partner))>>, <<Connective("NOT")>> }

\* the vector stores main runs on: empty, one row without a blob, two scored rows
MainStores ==
    { <<>>,
      <<[lawyer_id |-> 1, embedding |-> <<>>, text |-> PlainText]>>,
      <<[lawyer_id |-> 1, embedding |-> <<1, 0>>, text |-> PlainText],
        [lawyer_id |-> 2, embedding |-> <<1, 1>>, text |-> PlainText]>> }

MainAnswers == { [ok |-> FALSE, vec |-> <<>>], [ok |-> TRUE, vec |-> <<1, 0>>] }

MainInit ==
    /\ CacheInit
    /\ thr = NoThreads
    /\ ClsIdle
    /\ CmpIdle
    /\ store \in MainStores
    /\ request = NoCall
    /\ reply = NoCall

\* main(query, db_path, use_cache=use_cache).  query_type is what classify_query
\* gives for the query, ast_ what parse_simple_query gives, answer what the embedding
\* provider does, passing the lawyers the judge passes.
Main(q, use_cache, query_type, ast_, answer, passing) ==
    LET key == GetKey(q, DbPath)
        hit == use_cache /\ LiveHit(cache, timestamps, now, key)
        got == IF use_cache THEN GetCall(cache, timestamps, now, key)
               ELSE [cache |-> cache, timestamps |-> timestamps, ret |-> None]
        path == IF query_type = "simple" THEN SimplePath(ast_)
                ELSE ComplexPath(q, store, answer, passing)
        put == IF ~hit /\ use_cache /\ path.caches
               THEN SetCall(got.cache, got.timestamps, now, key, path.out.value)
               ELSE [cache |-> got.cache, timestamps |-> got.timestamps]
    IN  /\ query_type = "simple" => (answer = [ok |-> FALSE, vec |-> <<>>] /\ passing = {})
        /\ query_type = "complex" => ast_ = <<>>
        /\ request' = [fn |-> "main", query |-> q, use_cache |-> use_cache, hit |-> hit,
                       purged |-> use_cache /\ ~hit /\ CacheHas(cache, key),
                       query_type |-> query_type, ast |-> ast_, answer |-> answer,
                       passing |-> passing]
        /\ reply' = IF hit THEN Returned("main", got.ret, 0) ELSE path.out
        /\ cache' = put.cache
        /\ timestamps' = put.timestamps
        /\ UNCHANGED <<store, now, op, lastUse, lastSet, run, thr, clsSide, cmpSide>>

\* the clock advances between two resolutions
MainTick ==
    /\ now < MaxTime
    /\ now' = now + 1
    /\ UNCHANGED <<cache, timestamps, op, lastUse, lastSet, run, thr, clsSide, cmpSide,
                   pipeSide>>

MainNext ==
    \/ \E q \in MainQueries, use_cache \in BOOLEAN, query_type \in {"simple", "complex"},
          ast_ \in MainAsts, answer \in MainAnswers, passing \in {{}, LawyerIds} :
            Main(q, use_cache, query_type, ast_, answer, passing)
    \/ MainTick

SpecMain == MainInit /\ [][MainNext]_vars

MainMissed == request.fn = "main" /\ ~request.hit

\* C15: a query classified simple whose predicate sequence is empty resolves to the
\* entire record set.
C15_EmptySequenceReturnsAll ==
    (MainMissed /\ request.query_type = "simple" /\ request.ast = <<>>)
        => (reply.kind = "return" /\ reply.value = [i \in 1..Len(DbLawyers) |-> i])

\* C17: on the semantic path a retrieval failure (no embeddings, or an exception of
\* the embedding provider) reaches the caller of main as a raised condition.
C17_RetrievalFailureIsRaised ==
    (/\ MainMissed
     /\ request.query_type = "complex"
     /\ SemanticSearch(store, request.answer, AdaptiveK(request.query)).kind = "raise")
        => reply.kind = "raise"

----------------------------------------------------------------------------
(* QueryCache: replacement of an entry, and the two maps kept in step.      *)

\* C28: a set on a key that is present replaces that entry as a whole: the value is
\* the new value, the timestamp is now, the entry is the most recently used, and
\* every other entry keeps its value, its timestamp and its place; nothing is
\* evicted, also when the cache holds max_size entries.
C28_SetReplacesEntry ==
    [][ (op'.name = "set" /\ CacheHas(cache, OpKey(op')))
        => LET k == OpKey(op')
           IN  /\ cache' = DelCache(cache, k) \o <<[key |-> k, value |-> op'.val]>>
               /\ DOMAIN timestamps' = DOMAIN timestamps
               /\ timestamps'[k] = now
               /\ \A j \in (DOMAIN timestamps) \ {k} : timestamps'[j] = timestamps[j]
               /\ EvictionOrder(cache')[Len(cache')] = k
      ]_vars

\* a set has just replaced, at a later time, an entry of a cache that holds max_size
\* entries, another entry keeping its older timestamp
C28_Witness ==
    /\ op.name = "set" /\ op.had
    /\ Len(cache) = MaxSize
    /\ now > 0 /\ timestamps[OpKey(op)] = now
    /\ \E j \in DOMAIN timestamps : timestamps[j] < now

\* C30: after any sequence of get, set and clear calls made one at a time, the entry
\* map and the timestamp map have the same keys, and there are at most max_size
\* entries (max_size >= 1).
C30_MapsInStep ==
    /\ CacheKeys(cache) = DOMAIN timestamps
    /\ Len(cache) <= MaxSize
    /\ \A i, j \in 1..Len(cache) : i # j => cache[i].key # cache[j].key

\* the cache is full after an entry has left it: some key was set and is not there
C30_Witness ==
    /\ MaxSize >= 1
    /\ Len(cache) = MaxSize
    /\ op.name \in {"get", "set"}
    /\ \E k \in Keys : lastSet[k] >= 0 /\ ~CacheHas(cache, k)

----------------------------------------------------------------------------
(* The keyword threshold, stated on the cached texts.                       *)

\* the lawyer has a row of cached text
HasCachedText(lawyer_id) == \E i \in 1..Len(store) : store[i].lawyer_id = lawyer_id

\* the number of keywords of the request's query that the lawyer's cached text has
TextHits(lawyer_id) ==
    LET i == CHOOSE i \in 1..Len(store) :
                 /\ store[i].lawyer_id = lawyer_id
                 /\ \A j \in 1..(i - 1) : store[j].lawyer_id # lawyer_id
    IN  Cardinality({kw \in ExtractKeywords(request.query) :
                        IsSubstring(kw, Lower(store[i].text))})

\* the positions of the candidates that have no cached text or at least m hits
SurvivorsAt(m) ==
    {i \in 1..Len(request.candidate_ids) :
        \/ ~HasCachedText(request.candidate_ids[i])
        \/ TextHits(request.candidate_ids[i]) >= m}

\* the threshold for the request: none, 1, or 2 relaxed to 1
Threshold ==
    LET n == Cardinality(ExtractKeywords(request.query))
    IN  IF n = 0 THEN 0
        ELSE IF n <= 2 THEN 1
        ELSE IF Cardinality(SurvivorsAt(2)) < 5 THEN 1 ELSE 2

\* the candidates the threshold keeps, in input order
ThresholdKeeps ==
    LET at == Ascending(SurvivorsAt(Threshold))
    IN  [j \in 1..Len(at) |-> request.candidate_ids[at[j]]]

----------------------------------------------------------------------------
(* main and the cache: when an entry is written, and what is left alone.     *)

\* a step of main (the clock stands still during a resolution)
MainStep == now' = now /\ request'.fn = "main"

\* the entries of the cache as a set, whatever their order of use
EntrySet(c) == {c[i] : i \in 1..Len(c)}

\* the resolution of the request came to the cache write of lines 171-172 / 245-246
Completed(req) ==
    IF req.query_type = "simple"
    THEN req.ast # <<>> /\ ExecuteOnDb(CompileAstToSql(req.ast)).kind = "return"
    ELSE LET found == SemanticSearch(store, req.answer, AdaptiveK(req.query))
         IN  found.kind = "return" /\ found.value # <<>>

\* the resolution ended at line 145, at lines 201-213 or at line 223
EndedEarly(req) ==
    IF req.query_type = "simple"
    THEN req.ast = <<>>
    ELSE LET found == SemanticSearch(store, req.answer, AdaptiveK(req.query))
         IN  found.kind = "raise" \/ found.value = <<>>

\* an entry of the cache after the step was not there, with that value and that
\* timestamp, before it
WritesEntry ==
    \E i \in 1..Len(cache') :
        \/ cache'[i] \notin EntrySet(cache)
        \/ timestamps'[cache'[i].key] # timestamps[cache'[i].key]

\* entries and timestamps are what they were
MapsUnchanged == EntrySet(cache') = EntrySet(cache) /\ timestamps' = timestamps

\* entries and timestamps of every key but k are what they were, and k has neither
OnlyPurged(k) ==
    /\ EntrySet(cache') = {e \in EntrySet(cache) : e.key # k}
    /\ DOMAIN timestamps' = (DOMAIN timestamps) \ {k}
    /\ \A j \in DOMAIN timestamps' : timestamps'[j] = timestamps[j]

\* C27, as stated: main writes a cache entry only after a miss followed by a
\* resolution that completed with a result list; on a hit, on an empty predicate
\* sequence, on a retrieval error and on an empty candidate list entries and
\* timestamps are unchanged; with use_cache = false the cache is neither read nor
\* written.
C27_CacheUntouchedWithoutResult ==
    [][ MainStep
        => /\ WritesEntry
                => (request'.use_cache /\ ~request'.hit /\ Completed(request'))
           /\ (request'.hit \/ EndedEarly(request')) => MapsUnchanged
           /\ ~request'.use_cache => (cache' = cache /\ timestamps' = timestamps) ]_vars

\* C27, amended: as stated, except that on a miss the lookup has removed the entry
\* of the query's own key, with its timestamp, when that entry had expired.
C27_CacheWrittenOnlyAfterResult ==
    [][ MainStep
        => /\ WritesEntry
                => (request'.use_cache /\ ~request'.hit /\ Completed(request'))
           /\ request'.hit => MapsUnchanged
           /\ (request'.use_cache /\ ~request'.hit /\ EndedEarly(request'))
                => /\ OnlyPurged(GetKey(request'.query, DbPath))
                   /\ (~request'.purged => MapsUnchanged)
           /\ ~request'.use_cache => (cache' = cache /\ timestamps' = timestamps) ]_vars

\* a resolution with the cache in use missed on an expired entry of its own and
\* ended without a result list, while the entry of another query stayed
C27_Witness ==
    /\ request.fn = "main"
    /\ request.purged
    /\ EndedEarly(request)
    /\ ~CacheHas(cache, GetKey(request.query, DbPath))
    /\ Len(cache) >= 1

----------------------------------------------------------------------------
(* query_parser.parse_simple_query, on queries held as sequences of words.  *)
(* A word is a sequence of characters; the white space between two words is   *)
(* one blank, and an empty word stands for a word that was cut out of a text. *)

\* the characters of a word
Spell(w) ==
    CASE w = "lawyer" -> <<"l", "a", "w", "y", "e", "r">>
      [] w = "lawyers" -> <<"l", "a", "w", "y", "e", "r", "s">>
      [] w = "who" -> <<"w", "h", "o">>
      [] w = "went" -> <<"w", "e", "n", "t">>
      [] w = "to" -> <<"t", "o">>
      [] w = "Yale" -> <<"Y", "a", "l", "e">>
      [] w = "and" -> <<"a", "n", "d">>
      [] w = "practice" -> <<"p", "r", "a", "c", "t", "i", "c", "e">>
      [] w = "Tax" -> <<"T", "a", "x">>
      [] w = "partner" -> <<"p", "a", "r", "t", "n", "e", "r">>
      [] w = "partners" -> <<"p", "a", "r", "t", "n", "e", "r", "s">>
      [] w = "in" -> <<"i", "n">>
      [] w = "the" -> <<"t", "h", "e">>
      [] w = "named" -> <<"n", "a", "m", "e", "d">>
      [] w = "name" -> <<"n", "a", "m", "e">>
      [] w = "is" -> <<"i", "s">>
      [] w = "graduated" -> <<"g", "r", "a", "d", "u", "a", "t", "e", "d">>
      [] w = "from" -> <<"f", "r", "o", "m">>
      [] w = "school" -> <<"s", "c", "h", "o", "o", "l">>
      [] w = "type" -> <<"t", "y", "p", "e">>
      [] w = "a" -> <<"a">>
      [] w = "an" -> <<"a", "n">>
      [] w = "or" -> <<"o", "r">>
      [] w = "that" -> <<"t", "h", "a", "t">>
      [] w = "are" -> <<"a", "r", "e">>
      [] w = "managing" -> <<"m", "a", "n", "a", "g", "i", "n", "g">>
      [] w = "senior" -> <<"s", "e", "n", "i", "o", "r">>
      [] w = "associate" -> <<"a", "s", "s", "o", "c", "i", "a", "t", "e">>
      [] w = "associates" -> <<"a", "s", "s", "o", "c", "i", "a", "t", "e", "s">>

\* the longest query made freely of the vocabulary, in words
MaxQueryWords == 2

\* the words the explored queries are made of: letters only, none a 4-digit year, a
\* region or a language, and none ending in the first word of a pattern
ParseVocabulary ==
    { Spell(w) : w \in { "lawyers", "who", "went", "to", "Yale", "and", "practice", "Tax",
                         "partners", "in", "the", "named" } }

\* str.upper() on one character
UpperChar(c) ==
    IF \E u \in {"A", "I", "L", "N", "P", "T", "W", "Y"} : LowerChar(u) = c
    THEN CHOOSE u \in {"A", "I", "L", "N", "P", "T", "W", "Y"} : LowerChar(u) = c
    ELSE c

\* str.title() on the words of a lower-case text
TitleCase(ws) ==
    [i \in 1..Len(ws) |->
        IF ws[i] = <<>> THEN ws[i] ELSE <<UpperChar(ws[i][1])>> \o Tail(ws[i])]

\* query.lower(), word by word
LowerWords(ws) == [i \in 1..Len(ws) |-> Lower(ws[i])]

\* str.strip() on a text held as words: the cut-out words at its ends go
RECURSIVE StripWords(_)
StripWords(ws) ==
    IF ws = <<>> THEN ws
    ELSE IF Head(ws) = <<>> THEN StripWords(Tail(ws))
    ELSE IF ws[Len(ws)] = <<>> THEN StripWords(SubSeq(ws, 1, Len(ws) - 1))
    ELSE ws

\* a pattern: the words it begins with, each a set of spellings
Pat(alternatives) == [k \in 1..Len(alternatives) |-> { Spell(w) : w \in alternatives[k] }]

\* lines 71-75
NamePatterns ==
    << Pat(<<{"lawyer", "lawyers"}, {"named"}>>),
       Pat(<<{"name"}, {"is"}>>),
       Pat(<<{"name"}>>) >>

\* lines 93-99
SchoolPatterns ==
    << Pat(<<{"went"}, {"to"}>>),
       Pat(<<{"graduated"}, {"from"}>>),
       Pat(<<{"from"}>>),
       Pat(<<{"school"}, {"is"}>>),
       Pat(<<{"lawyer", "lawyers"}, {"who"}, {"went"}, {"to"}>>) >>

\* lines 118-123
PracticePatterns ==
    << Pat(<<{"practice"}>>),
       Pat(<<{"in"}>>),
       Pat(<<{"lawyer", "lawyers"}, {"in"}>>),
       Pat(<<{"practice"}, {"type"}, {"is"}>>) >>

\* lines 147-157, the rows whose words the vocabulary can spell
TitleMappings ==
    << [pat |-> Pat(<<{"managing"}, {"partner", "partners"}>>),
        title |-> <<Spell("managing"), Spell("partner")>>],
       [pat |-> Pat(<<{"senior"}, {"partner", "partners"}>>),
        title |-> <<Spell("senior"), Spell("partner")>>],
       [pat |-> Pat(<<{"partner", "partners"}>>), title |-> <<Spell("partner")>>],
       [pat |-> Pat(<<{"associate", "associates"}>>), title |-> <<Spell("associate")>>] >>

\* the words of the pattern stand at position i of the lower-case query
StandsAt(ws, pat, i) ==
    /\ i + Len(pat) - 1 <= Len(ws)
    /\ \A k \in 1..Len(pat) : Lower(ws[i + k - 1]) \in pat[k]

\* re.search(pattern, query_lower) for a pattern that ends in \s+([a-z\s]+): the
\* position of the leftmost match, 0 without one; the group needs a word after it
SearchAt(ws, pat) ==
    LET at == {i \in 1..Len(ws) : StandsAt(ws, pat, i) /\ i + Len(pat) <= Len(ws)}
    IN  IF at = {} THEN 0 ELSE CHOOSE i \in at : \A j \in at : i <= j

\* the first pattern of the list that matches, 0 when none does
FirstMatching(ws, pats) ==
    LET ok == {p \in 1..Len(pats) : SearchAt(ws, pats[p]) > 0}
    IN  IF ok = {} THEN 0 ELSE CHOOSE p \in ok : \A r \in ok : p <= r

\* match.group(1).strip(): the letters and blanks after the pattern, to the end
Group(ws, pat) == SubSeq(ws, SearchAt(ws, pat) + Len(pat), Len(ws))

\* re.sub(pattern, '', query, flags=re.IGNORECASE).strip()
Without(ws, pat) == SubSeq(ws, 1, SearchAt(ws, pat) - 1)

\* lines 77-88: the name queries
NameStep(st) ==
    LET p == FirstMatching(st.query, NamePatterns)
    IN  IF p = 0 THEN st
        ELSE [ast |-> Append(st.ast,
                        Predicate("name", "contains",
                            StrV(JoinWords(LowerWords(Group(st.query, NamePatterns[p])))))),
              query |-> Without(st.query, NamePatterns[p])]

\* re.sub(r'\b(and|the|a|an)\b', '', school).strip()
SchoolName(ws) ==
    StripWords([i \in 1..Len(ws) |->
                   IF ws[i] \in {Spell("and"), Spell("the"), Spell("a"), Spell("an")}
                   THEN <<>> ELSE ws[i]])

\* lines 101-114: the school queries
SchoolStep(st) ==
    LET p == FirstMatching(st.query, SchoolPatterns)
        school == IF p = 0 THEN <<>>
                  ELSE SchoolName(LowerWords(Group(st.query, SchoolPatterns[p])))
    IN  IF school = <<>> THEN st
        ELSE [ast |-> Append(st.ast,
                        Predicate("school", "contains", StrV(JoinWords(school)))),
              query |-> Without(st.query, SchoolPatterns[p])]

\* lines 125-143: the practice queries; practice_alias.csv is not part of the
\* repository, so practice_map is empty and the name is title-cased
PracticeStep(st) ==
    LET p == FirstMatching(st.query, PracticePatterns)
    IN  IF p = 0 THEN st
        ELSE [ast |-> Append(st.ast,
                        Predicate("practice", "eq",
                            StrV(JoinWords(TitleCase(
                                LowerWords(Group(st.query, PracticePatterns[p]))))))),
              query |-> Without(st.query, PracticePatterns[p])]

\* re.search of a title pattern, which is closed by \b and needs no word after it
TitleAt(ws, pat) == {i \in 1..Len(ws) : StandsAt(ws, pat, i)}

\* re.sub of a title pattern: every occurrence goes, left to right
RECURSIVE CutTitle(_, _)
CutTitle(ws, pat) ==
    IF ws = <<>> THEN ws
    ELSE IF StandsAt(ws, pat, 1) THEN CutTitle(SubSeq(ws, Len(pat) + 1, Len(ws)), pat)
    ELSE <<Head(ws)>> \o CutTitle(Tail(ws), pat)

\* lines 160-169: the title queries
TitleStep(st) ==
    LET ok == {t \in 1..Len(TitleMappings) : TitleAt(st.query, TitleMappings[t].pat) # {}}
        t == CHOOSE t \in ok : \A r \in ok : t <= r
    IN  IF ok = {} THEN st
        ELSE [ast |-> Append(st.ast,
                        Predicate("title", "eq",
                            StrV(JoinWords(TitleCase(TitleMappings[t].title))))),
              query |-> CutTitle(st.query, TitleMappings[t].pat)]

\* ' and ' in query_lower
HasAnd(ws) == \E i \in 2..(Len(ws) - 1) : Lower(ws[i]) = Spell("and")

\* re.split(r'\s+and\s+', query_lower)
RECURSIVE SplitAnd(_)
SplitAnd(ws) ==
    IF ~HasAnd(ws) THEN <<ws>>
    ELSE LET i == CHOOSE i \in 2..(Len(ws) - 1) :
                     /\ ws[i] = Spell("and")
                     /\ \A j \in 2..(i - 1) : ws[j] # Spell("and")
         IN  <<SubSeq(ws, 1, i - 1)>> \o SplitAnd(SubSeq(ws, i + 1, Len(ws)))

\* lines 253-258: the words left that are no stop words and longer than 2
Keywords(ws) ==
    SelectSeq(ws, LAMBDA w :
        /\ Lower(w) \notin { Spell(x) : x \in {"the", "a", "an", "and", "or", "who", "that",
                                                "is", "are", "lawyers", "lawyer"} }
        /\ Len(w) > 2)

RECURSIVE ParseSimpleQuery(_)
RECURSIVE ParseParts(_, _)

\* lines 240-245: the parts parsed one after the other, an AND before each but the
\* first
ParseParts(parts, i) ==
    IF i > Len(parts) THEN <<>>
    ELSE (IF i > 1 THEN <<Connective("AND")>> ELSE <<>>)
             \o ParseSimpleQuery(parts[i]) \o ParseParts(parts, i + 1)

\* parse_simple_query(query).  The temporal, 'title is', region and language
\* patterns (lines 45-68, 172-233) match no query made of the vocabulary.
ParseSimpleQuery(ws) ==
    IF ws = <<>> THEN <<>>
    ELSE LET st == TitleStep(PracticeStep(SchoolStep(NameStep(
                       [ast |-> <<>>, query |-> ws]))))
         IN  IF HasAnd(st.query)
             THEN ParseParts(SplitAnd(LowerWords(st.query)), 1)
             ELSE IF st.ast = <<>> /\ Keywords(st.query) # <<>>
             THEN <<Predicate("name", "contains", StrV(JoinWords(Keywords(st.query))))>>
             ELSE st.ast

\* "lawyers who went to Yale and practice Tax", line 300
YaleAndTax ==
    [i \in 1..8 |-> Spell(<<"lawyers", "who", "went", "to", "Yale", "and", "practice",
                            "Tax">>[i])]

\* the queries of lines 296-301 that the vocabulary spells, and every query of up to
\* MaxQueryWords words
ParseQueries ==
    { YaleAndTax,
      <<Spell("lawyers"), Spell("who"), Spell("went"), Spell("to"), Spell("Yale")>>,
      <<Spell("lawyers"), Spell("in"), Spell("Tax")>>,
      <<Spell("went"), Spell("to"), Spell("Yale"), Spell("and"), Spell("partners")>>,
      <<Spell("partners"), Spell("and"), Spell("the"), Spell("lawyers")>> }
        \cup UNION { [1..n -> ParseVocabulary] : n \in 1..MaxQueryWords }

ParseInit ==
    /\ CacheInit
    /\ thr = NoThreads
    /\ ClsIdle
    /\ CmpIdle
    /\ store = <<>>
    /\ request \in { [fn |-> "parse_simple_query", query |-> q] : q \in ParseQueries }
    /\ reply = NoCall

\* ast = parse_simple_query(query), main.py line 142
Parse ==
    /\ stage = "idle"
    /\ request.fn = "parse_simple_query"
    /\ ast' = ParseSimpleQuery(request.query)
    /\ stage' = "parsed"
    /\ UNCHANGED <<out, entity, selected, cacheSide, clsSide, pipeSide>>

ParseNext ==
    \/ Parse
    \/ Compile

SpecParse == ParseInit /\ [][ParseNext]_vars

\* C24: the query "lawyers who went to Yale and practice Tax" is parsed and compiled
\* into exactly two predicates joined by AND: first a school predicate on Yale, then
\* a practice equality predicate on Tax.
C24_YaleAndTaxIsTwoPredicates ==
    (request.fn = "parse_simple_query" /\ request.query = YaleAndTax)
        => /\ stage = "parsed"
                => /\ Len(ast) = 3
                   /\ ast[1].field = "school" /\ Str(ast[1].value) = Lower(Yale)
                   /\ ast[2] = Connective("AND")
                   /\ ast[3] = Predicate("practice", "eq", StrV(Tax))
           /\ stage = "compiled"
                => out = CompileAstToSql(<<Predicate("school", "contains", StrV(Lower(Yale))),
                                           Connective("AND"),
                                           Predicate("practice", "eq", StrV(Tax))>>)

----------------------------------------------------------------------------
(* compile_ast_to_sql: the shape of the WHERE clause.                        *)

IsBinary(piece) == piece \in {"AND", "OR"}

IsCondition(piece) == piece \notin {"AND", "OR", "NOT"}

\* C29: for every node sequence that mixes predicates and connectives, the WHERE
\* clause of the compiled text is a well-formed boolean expression; it never begins
\* or ends with AND/OR, never ends with NOT, never has two conditions or two binary
\* connectives side by side; and the text has as many '?' as there are bound
\* parameters.
C29_WhereClauseWellFormed ==
    stage = "compiled"
        => LET w == WhereParts(out.sql)
           IN  /\ w # <<>> => /\ ~IsBinary(w[1])
                              /\ ~IsBinary(w[Len(w)])
                              /\ w[Len(w)] # "NOT"
                              /\ WellFormedClause(FlattenPieces(w))
               /\ \A i \in 1..(Len(w) - 1) :
                     /\ ~(IsCondition(w[i]) /\ IsCondition(w[i + 1]))
                     /\ ~(IsBinary(w[i]) /\ IsBinary(w[i + 1]))
               /\ CountParams(FlattenPieces(out.sql)) = Len(out.params)

----------------------------------------------------------------------------
(* llm_filter.parallel_llm_filter: the judge evaluations run by a pool of    *)
(* worker threads and collected in the order submitted.  The call is held in  *)
(* request, its progress in reply.                                            *)

\* the worker threads of the pool
Workers == 2

\* the rows of table lawyers
JudgeLawyers ==
    << [id |-> 1, name |-> <<"Z", "e", "d">>],
       [id |-> 2, name |-> <<"A", "m", "y">>],
       [id |-> 3, name |-> <<"M", "o", "e">>] >>

\* the rows of experience_embeddings: lawyer 3 has no parsed text
JudgeStore ==
    << [lawyer_id |-> 1, embedding |-> <<>>, text |-> PlainText],
       [lawyer_id |-> 2, embedding |-> <<>>, text |-> PlainText] >>

\* lines 113-125: lawyer_info
InLawyerInfo(lawyer_id) == \E i \in 1..Len(JudgeLawyers) : JudgeLawyers[i].id = lawyer_id

LawyerInfo(lawyer_id) ==
    JudgeLawyers[CHOOSE i \in 1..Len(JudgeLawyers) : JudgeLawyers[i].id = lawyer_id]

\* what the judge, or the page fetch before it, does for one candidate
\*   says:   the judge's response, or "raises" for an exception of llm(), or
\*           "no_page" for an exception of parse_page(), which is called for a
\*           lawyer without parsed text
\*   timing: "prompt" well within the result timeout, "slow" at any time, "hang" never
Behaviours ==
    [says : {"pass", "fail", "bare", "raises", "no_page"}, timing : {"prompt"}]
        \cup { [says |-> "pass", timing |-> "slow"], [says |-> "pass", timing |-> "hang"] }

\* the text the judge answers with, as tagged sections
JudgeResponse(says) ==
    CASE says = "pass" -> << [tag |-> "thinking", body |-> <<"o", "k", " ">>],
                             [tag |-> "answer", body |-> <<"P", "a", "s", "s">>] >>
      [] says = "fail" -> << [tag |-> "thinking", body |-> <<"n", "o">>],
                             [tag |-> "answer", body |-> <<"F", "a", "i", "l">>] >>
      [] OTHER -> << [tag |-> "", body |-> <<"y", "e", "s">>] >>

\* '<tag>' in response and '</tag>' in response
HasTag(response, tag) == \E i \in 1..Len(response) : response[i].tag = tag

\* response.split('<tag>')[1].split('</tag>')[0].strip()
TagBody(response, tag) ==
    Strip(response[CHOOSE i \in 1..Len(response) :
                      /\ response[i].tag = tag
                      /\ \A j \in 1..(i - 1) : response[j].tag # tag].body)

\* f"Error: {str(e)}"
ErrorText(e) == <<"E", "r", "r", "o", "r", ":", " ">> \o e

\* lines 41-46: the profile text is the cached parsed text, or else the page
HasParsedText(rows, lawyer_id) ==
    RowsOf(rows, lawyer_id) # {} /\ FirstRow(rows, lawyer_id).text # <<>>

\* lines 75-87: answer and reasoning out of the response
Verdict(response) ==
    LET answer == IF HasTag(response, "answer") THEN TagBody(response, "answer")
                  ELSE <<"F", "a", "i", "l">>
        reasoning == IF HasTag(response, "thinking") THEN TagBody(response, "thinking")
                     ELSE <<>>
    IN  [passes |-> Lower(answer) = <<"p", "a", "s", "s">>, reasoning |-> reasoning]

\* evaluate_lawyer_for_query(lawyer_id, url, query, db_path): passes and reasoning
EvaluateLawyerForQuery(rows, lawyer_id, b) ==
    IF ~HasParsedText(rows, lawyer_id) /\ b.says = "no_page"
    THEN [passes |-> FALSE, reasoning |-> ErrorText(<<"u", "r", "l">>)]
    ELSE IF b.says = "raises"
    THEN [passes |-> FALSE, reasoning |-> ErrorText(<<"5", "0", "3">>)]
    ELSE Verdict(JudgeResponse(b.says))

NoVerdict == [passes |-> FALSE, reasoning |-> <<"-">>]

\* lines 144-153: the futures, one for each id of lawyer_ids that lawyer_info has
Futures(lawyer_ids) == SelectSeq(lawyer_ids, InLawyerInfo)

\* the futures a worker thread is running
Running(r) == {j \in 1..Len(r.status) : r.status[j] = "running"}

\* the future the pool takes next off its queue, 0 when the queue is empty
NextQueued(r) ==
    LET q == {j \in 1..Len(r.status) : r.status[j] = "queued"}
    IN  IF q = {} THEN 0 ELSE CHOOSE j \in q : \A i \in q : j <= i

\* the progress of the call after line 158
Submitted(lawyer_ids) ==
    LET n == Len(Futures(lawyer_ids))
    IN  [fn |-> "parallel_llm_filter",
         pc |-> "collect",
         status |-> [j \in 1..n |-> "queued"],
         verdict |-> [j \in 1..n |-> NoVerdict],
         outcome |-> [j \in 1..n |-> "pending"],
         pos |-> 1,
         processed |-> 0,
         results |-> <<>>]

\* lines 162-174: future.result gave the tuple
AfterResult(r, info) ==
    [r EXCEPT !.outcome[r.pos] = "result",
              !.pos = r.pos + 1,
              !.processed = r.processed + 1,
              !.results = IF r.verdict[r.pos].passes
                          THEN Append(r.results,
                                      [id |-> info.id, name |-> info.name,
                                       reasoning |-> r.verdict[r.pos].reasoning])
                          ELSE r.results]

\* mutant of AfterTimeout: the timeout ends the collection
AfterTimeout_Aborts(r) ==
    [r EXCEPT !.outcome[r.pos] = "timeout",
              !.pos = Len(r.status) + 1,
              !.processed = r.processed + 1]

\* lines 176-178: future.result(timeout=30) raised
AfterTimeout(r) ==
    [r EXCEPT !.outcome[r.pos] = "timeout",
              !.pos = r.pos + 1,
              !.processed = r.processed + 1]

\* the candidate lists: the lawyers of the table in rising and in falling order of
\* id, with or without an id the table does not have
JudgeLists ==
    LET rising == { Ascending(S) : S \in SUBSET {1, 2, 3} }
        falling == { [i \in 1..Len(a) |-> a[Len(a) + 1 - i]] : a \in rising }
    IN  rising \cup falling \cup { <<OrphanId>>, <<1, OrphanId, 2>> }

JudgeInit ==
    /\ CacheInit
    /\ thr = NoThreads
    /\ ClsIdle
    /\ CmpIdle
    /\ store = JudgeStore
    /\ request = NoCall
    /\ reply = NoCall

\* parallel_llm_filter(lawyer_ids, query), lines 109-158: every future is submitted
\* before the first result is asked for
CallParallelLlmFilter(lawyer_ids, behaves) ==
    /\ request = NoCall
    /\ \A j \in 1..Len(Futures(lawyer_ids)) :
          behaves[j].says = "no_page" => ~HasParsedText(store, Futures(lawyer_ids)[j])
    /\ request' = [fn |-> "parallel_llm_filter", lawyer_ids |-> lawyer_ids,
                   futures |-> Futures(lawyer_ids), behaves |-> behaves]
    /\ reply' = Submitted(lawyer_ids)
    /\ UNCHANGED <<store, cacheSide, clsSide, cmpSide>>

InFilter == request.fn = "parallel_llm_filter"

\* a worker thread runs evaluate_lawyer_for_query for the next future, whose judge
\* answers promptly
RunPrompt ==
    /\ InFilter
    /\ reply.pc = "collect"
    /\ Cardinality(Running(reply)) < Workers
    /\ NextQueued(reply) # 0
    /\ LET j == NextQueued(reply)
           b == request.behaves[j]
       IN  /\ b.timing = "prompt"
           /\ reply' = [reply EXCEPT
                           !.status[j] = "done",
                           !.verdict[j] = EvaluateLawyerForQuery(store, request.futures[j], b)]
    /\ UNCHANGED <<store, request, cacheSide, clsSide, cmpSide>>

\* a worker thread starts the next future, whose judge does not answer promptly
StartLate ==
    /\ InFilter
    /\ reply.pc = "collect"
    /\ Cardinality(Running(reply)) < Workers
    /\ NextQueued(reply) # 0
    /\ request.behaves[NextQueued(reply)].timing # "prompt"
    /\ reply' = [reply EXCEPT !.status[NextQueued(reply)] = "running"]
    /\ UNCHANGED <<store, request, cacheSide, clsSide, cmpSide>>

\* a slow judge answers at last
FinishSlow(j) ==
    /\ InFilter
    /\ reply.pc = "collect"
    /\ j \in Running(reply)
    /\ request.behaves[j].timing = "slow"
    /\ reply' = [reply EXCEPT
                    !.status[j] = "done",
                    !.verdict[j] = EvaluateLawyerForQuery(store, request.futures[j],
                                                          request.behaves[j])]
    /\ UNCHANGED <<store, request, cacheSide, clsSide, cmpSide>>

\* lines 160-174: the next future has its result
Collect ==
    /\ InFilter
    /\ reply.pc = "collect"
    /\ reply.pos <= Len(reply.status)
    /\ reply.status[reply.pos] = "done"
    /\ reply' = AfterResult(reply, LawyerInfo(request.futures[reply.pos]))
    /\ UNCHANGED <<store, request, cacheSide, clsSide, cmpSide>>

\* lines 162, 176-178: the next future has no result when the timeout is over; a
\* future still queued gets no thread in time only when every thread is held by a
\* judge that does not answer promptly
TimeOut ==
    /\ InFilter
    /\ reply.pc = "collect"
    /\ reply.pos <= Len(reply.status)
    /\ \/ reply.status[reply.pos] = "running"
       \/ /\ reply.status[reply.pos] = "queued"
          /\ Cardinality(Running(reply)) = Workers
    /\ reply' = AfterTimeout(reply)
    /\ UNCHANGED <<store, request, cacheSide, clsSide, cmpSide>>

\* lines 137, 182: leaving the with block waits for every future of the pool
\* (ThreadPoolExecutor.__exit__ is shutdown(wait=True)); then results is returned
Return ==
    /\ InFilter
    /\ reply.pc = "collect"
    /\ reply.pos = Len(reply.status) + 1
    /\ \A j \in 1..Len(reply.status) : reply.status[j] = "done"
    /\ reply' = [reply EXCEPT !.pc = "returned"]
    /\ UNCHANGED <<store, request, cacheSide, clsSide, cmpSide>>

JudgeNext ==
    \/ \E lawyer_ids \in JudgeLists :
          \E behaves \in [1..Len(Futures(lawyer_ids)) -> Behaviours] :
             CallParallelLlmFilter(lawyer_ids, behaves)
    \/ RunPrompt
    \/ StartLate
    \/ \E j \in 1..Len(JudgeLawyers) : FinishSlow(j)
    \/ Collect
    \/ TimeOut
    \/ Return

SpecJudge == JudgeInit /\ [][JudgeNext]_vars

\* the threads and the collecting loop keep running
SpecJudgeFair == SpecJudge /\ WF_vars(JudgeNext)

JudgeReturned == reply.fn = "parallel_llm_filter" /\ reply.pc = "returned"

\* the collecting loop of lines 160-178 is through
JudgeCollected ==
    reply.fn = "parallel_llm_filter" /\ reply.pos = Len(reply.status) + 1

\* the evaluation of future j fails or may fail: an exception, a response without
\* answer tags, or a judge that does not answer promptly
Troubled(j) ==
    \/ request.behaves[j].says \in {"bare", "raises", "no_page"}
    \/ request.behaves[j].timing # "prompt"

\* the result has the lawyer of future j
InResults(j) ==
    \E i \in 1..Len(reply.results) : reply.results[i].id = request.futures[j]

FailedEvaluation(j) ==
    /\ reply.outcome[j] # "pending"
    /\ \/ request.behaves[j].says \in {"bare", "raises", "no_page"}
       \/ reply.outcome[j] = "timeout"

\* C22: every candidate whose judge evaluation fails (timeout, malformed response,
\* exception) gets a verdict with passed = false and a non-empty rationale.
C22_FailureGetsVerdictWithRationale ==
    reply.fn = "parallel_llm_filter"
        => \A j \in 1..Len(reply.status) :
              FailedEvaluation(j)
                  => /\ reply.outcome[j] = "result"
                     /\ ~reply.verdict[j].passes
                     /\ reply.verdict[j].reasoning # <<>>

\* the code point order of the characters of the names
CodePoints == <<"A", "M", "Z", "d", "e", "m", "o", "y">>

CodePoint(c) == CHOOSE i \in 1..Len(CodePoints) : CodePoints[i] = c

\* a < b for two str
RECURSIVE StrLess(_, _)
StrLess(a, b) ==
    IF b = <<>> THEN FALSE
    ELSE IF a = <<>> THEN TRUE
    ELSE IF Head(a) # Head(b) THEN CodePoint(Head(a)) < CodePoint(Head(b))
    ELSE StrLess(Tail(a), Tail(b))

\* C23: the list the judge stage returns to main has no candidate whose verdict is
\* not-passed and is sorted ascending by display name, whatever the order in which
\* the candidates were submitted or completed.
C23_ResultSortedByName ==
    JudgeReturned
        => /\ \A j \in 1..Len(reply.status) :
                 InResults(j) => (reply.outcome[j] = "result" /\ reply.verdict[j].passes)
           /\ \A i, k \in 1..Len(reply.results) :
                 i < k => ~StrLess(reply.results[k].name, reply.results[i].name)

\* C25: parallel_llm_filter eventually returns even when the judge call of one
\* candidate never returns.
C25_ReturnsDespiteHungJudge ==
    ( /\ InFilter
      /\ Cardinality({j \in 1..Len(request.futures) :
                         request.behaves[j].timing = "hang"}) = 1 )
        ~> JudgeReturned

====
